---- MODULE Spec2Model ----
(***************************************************************************)
(* Headless control plane of the coding agent: the SSE event plane and the *)
(* extension UI bridge of HTTP mode (modes/http/http-mode.ts and           *)
(* modes/http/http-server.ts) and of stdin RPC mode (modes/rpc/rpc-mode.ts),*)
(* the shared command dispatcher (modes/rpc/rpc-commands.ts) behind         *)
(* POST /rpc and the stdin lines, and the shutdown sequence of both modes.  *)
(* Extensions with session_shutdown handlers are loaded.                    *)
(*                                                                         *)
(* JavaScript runs one callback at a time, so every action below is one    *)
(* callback run to its end (or to its next await).                         *)
(***************************************************************************)
EXTENDS Integers, Sequences, FiniteSets, TLC

\* ------------------------------------------------------------- bounds
\* Number of events emitted (broadcast over SSE, or written to stdout).
MaxEvents == 2
\* Number of response objects GET /events can create.
NumConns == 2
\* Number of dialog calls (each gets a fresh crypto.randomUUID()).
NumDialogs == 1
\* Number of writes to a response that throw.
MaxWriteFailures == 2
\* Number of POST /rpc requests or stdin lines handled.
MaxCommands == 2
\* Number of shutdown triggers (POST /shutdown, SIGTERM, SIGINT, shutdown()).
MaxTriggers == 2
\* Number of patterns in one list of entries.
MaxPatterns == 2
\* Number of packages in the global settings, and in the project settings.
MaxPackages == 2
MaxSettingsCalls == 2
MaxRegistryCalls == 2

Conns == 1..NumConns
DialogIds == 1..NumDialogs
\* An id no dialog was ever issued under ("non-existent-id").
UnknownId == 0
ResponseIds == DialogIds \cup {UnknownId}

Modes == {"http", "rpc"}
DialogMethods == {"select", "confirm", "input"}
Methods == DialogMethods \cup {"editor"}
\* opts.signal of a dialog call: absent, not yet aborted, already aborted.
SignalStates == {"none", "live", "aborted"}
\* Outcome of writeSseEvent on one response: both writes done, the first
\* res.write threw, the second res.write threw.
WriteOutcomes == {"ok", "throw1", "throw2"}

\* Bodies of extension_ui_response messages the host can send.
Responses ==
    { [cancelled |-> FALSE, field |-> "value", v |-> "a"],
      [cancelled |-> FALSE, field |-> "confirmed", v |-> "true"],
      [cancelled |-> FALSE, field |-> "confirmed", v |-> "false"],
      [cancelled |-> TRUE, field |-> "none", v |-> "undefined"],
      [cancelled |-> TRUE, field |-> "value", v |-> "a"],
      [cancelled |-> FALSE, field |-> "none", v |-> "undefined"] }
\* A response body with neither cancelled, value nor confirmed.
EmptyResponse == [cancelled |-> FALSE, field |-> "none", v |-> "undefined"]

ShutdownError == "Server shutting down"

VARIABLES
    mode,                      \* which of runHttpMode / runRpcMode is running
    pc,                        \* position of the process in its shutdown sequence
    subscribed,                \* unsubscribeSession / session.subscribe is in place
    heartbeatTimer,            \* the heartbeat interval is set
    shutdownRequested,         \* rpc-mode flag set by an extension's shutdown()
    sseConnections,            \* the Set<ServerResponse>, in insertion order
    conn,                      \* each response object's state
    emitted,                   \* every event emitted so far, in emission order
    received,                  \* what was written to each response object
    attachedAt,                \* Len(emitted) when the response joined the set
    writeFailed,               \* emission numbers whose write to the response threw
    pendingExtensionRequests,  \* ids (keys) of the pending map
    method,                    \* dialog method called under each id
    promise,                   \* the promise each dialog call returned
    timerArmed,                \* setTimeout of the dialog is set and not cleared
    signal,                    \* state of the AbortSignal passed to the dialog
    listening,                 \* the dialog's "abort" listener is registered
    settledBy,                 \* what settled the promise
    lastReply,                 \* reply to the request or message handled last
    requests,                  \* each POST /rpc request or stdin line, and its progress
    responses,                 \* what was sent back for each of them
    sessionOps,                \* the session methods invoked on behalf of each
    session,                   \* the AgentSession fields get_state reads
    turn,                      \* the turn session.prompt() started for each prompt
    overdue,                   \* RPC_TIMEOUT_MS have passed and the command still runs
    stateRead,                 \* the data of the last get_state response
    quiet,                     \* nothing mutating was issued or ran since that response
    sessionShutdowns,          \* session_shutdown events given to the extensions
    exitCode,                  \* process.exit(code), -1 while the process lives
    triggers,                  \* shutdown triggers fired in HTTP mode
    shutdownImmediates,        \* setImmediate callbacks queued by POST /shutdown
    shutdown204,               \* 204 responses written to POST /shutdown
    sinceHeartbeat,            \* ms since the heartbeat interval was set or last fired
    pmCall,                    \* the package manager method called, and its arguments
    target,                    \* the target map of resources: path, enabled
    packageSources,            \* the package entries resolve() goes on to process
    progressEvents,            \* what the progress callback was called with, in order
    operation,                 \* the withProgress operation awaited, and the calls still to make
    thrown,                    \* what the package manager method threw ("none": it returned)
    commandsRun,               \* the npm and git operations started
    manager,                   \* how the SettingsManager was created ("none": not yet)
    globalSettings,            \* SettingsManager.globalSettings
    inMemoryProjectSettings,   \* SettingsManager.inMemoryProjectSettings
    settings,                  \* SettingsManager.settings, the effective settings
    globalFile,                \* contents of <agentDir>/settings.json
    projectFile,               \* contents of <cwd>/.pi/settings.json
    lastCall,                  \* the method of the manager called last
    overridden,                \* every applyOverrides argument so far, merged
    settingsCalls,             \* number of calls made on the manager
    models,                    \* ModelRegistry.models
    customProviderApiKeys,     \* ModelRegistry.customProviderApiKeys
    registeredProviders,       \* ModelRegistry.registeredProviders, in insertion order
    oauthProviders,            \* providers given to registerOAuthProvider
    apiProviders,              \* apis given to registerApiProvider
    registryCall,              \* the registry method called last, and what it threw
    before,                    \* models and registeredProviders when that call began
    registryCalls              \* number of calls made on the registry

vars == <<mode, pc, subscribed, heartbeatTimer, shutdownRequested, sseConnections,
          conn, emitted, received, attachedAt, writeFailed,
          pendingExtensionRequests, method, promise, timerArmed, signal,
          listening, settledBy, lastReply, requests, responses, sessionOps,
          session, turn, overdue, stateRead, quiet, sessionShutdowns, exitCode,
          triggers, shutdownImmediates, shutdown204, sinceHeartbeat, pmCall,
          target, packageSources, progressEvents, operation, thrown, commandsRun,
          manager, globalSettings, inMemoryProjectSettings, settings, globalFile,
          projectFile, lastCall, overridden, settingsCalls, models,
          customProviderApiKeys, registeredProviders, oauthProviders, apiProviders,
          registryCall, before, registryCalls>>

sseVars == <<sseConnections, conn, received, attachedAt, writeFailed>>
dialogVars == <<pendingExtensionRequests, method, promise, timerArmed, signal,
                listening, settledBy>>
lifeVars == <<mode, pc, subscribed, heartbeatTimer, shutdownRequested>>
rpcVars == <<requests, responses, sessionOps, session, turn, overdue, stateRead, quiet>>
exitVars == <<sessionShutdowns, exitCode, triggers>>
routeVars == <<shutdownImmediates, shutdown204>>
timeVars == <<sinceHeartbeat>>
pkgVars == <<pmCall, target, packageSources, progressEvents, operation, thrown,
             commandsRun>>
settingsVars == <<manager, globalSettings, inMemoryProjectSettings, settings, globalFile,
                  projectFile, lastCall, overridden, settingsCalls>>
registryVars == <<models, customProviderApiKeys, registeredProviders, oauthProviders,
                  apiProviders, registryCall, before, registryCalls>>

\* ------------------------------------------------------------ helpers
Range(s) == { s[i] : i \in 1..Len(s) }

\* A delete that deletes nothing.
WithoutNothing(s, x) == s

\* Set.delete(x) on the insertion-ordered set s.
RECURSIVE Without(_, _)
Without(s, x) ==
    IF s = <<>> THEN <<>>
    ELSE IF Head(s) = x THEN Without(Tail(s), x)
    ELSE <<Head(s)>> \o Without(Tail(s), x)

\* outcome: what the handler did with the request ("none": not a UI response).
NoReply == [route |-> "none", status |-> 0, id |-> UnknownId, outcome |-> "none",
            response |-> EmptyResponse]

Reply(route, status, id, outcome, response) ==
    [route |-> route, status |-> status, id |-> id, outcome |-> outcome,
     response |-> response]

Unissued == [st |-> "unissued", v |-> "undefined"]
Pending == [st |-> "pending", v |-> "undefined"]
Resolved(v) == [st |-> "resolved", v |-> v]
Rejected(msg) == [st |-> "rejected", v |-> msg]

\* A promise settles once: resolve/reject on a settled promise does nothing.
Settle(p, outcome) == IF p.st = "pending" THEN outcome ELSE p

\* ------------------------------------------------------- SSE helpers
\* writeSseEvent: res.write("event: ..."), then res.write("data: ...").
WriteSseEvent(rcv, seq, outcome) ==
    IF outcome = "throw1" THEN rcv
    ELSE IF outcome = "throw2" THEN Append(rcv, [seq |-> seq, part |-> "event"])
    ELSE rcv \o << [seq |-> seq, part |-> "event"], [seq |-> seq, part |-> "data"] >>

\* The for-of loop of broadcastSseEvent from position i on: each write is in
\* its own try/catch.
RECURSIVE BroadcastLoop(_, _, _, _, _)
BroadcastLoop(connections, i, rcvd, seq, out) ==
    IF i > Len(connections) THEN rcvd
    ELSE BroadcastLoop(connections, i + 1,
            [rcvd EXCEPT ![connections[i]] = WriteSseEvent(@, seq, out[connections[i]])],
            seq, out)

\* The same loop without the try/catch: the first throw ends the broadcast.
RECURSIVE BroadcastLoopNoCatch(_, _, _, _, _)
BroadcastLoopNoCatch(connections, i, rcvd, seq, out) ==
    IF i > Len(connections) THEN rcvd
    ELSE IF out[connections[i]] # "ok"
         THEN [rcvd EXCEPT ![connections[i]] = WriteSseEvent(@, seq, out[connections[i]])]
         ELSE BroadcastLoopNoCatch(connections, i + 1,
                [rcvd EXCEPT ![connections[i]] = WriteSseEvent(@, seq, out[connections[i]])],
                seq, out)

\* A loop that returns after its first write.
BroadcastSseEventFirstOnly(connections, rcvd, seq, out) ==
    IF connections = <<>> THEN rcvd
    ELSE [rcvd EXCEPT ![connections[1]] = WriteSseEvent(@, seq, out[connections[1]])]

\* A loop over every response object ever created instead of over the set.
BroadcastSseEventStale(connections, rcvd, seq, out) ==
    [c \in Conns |-> WriteSseEvent(rcvd[c], seq, out[c])]

BroadcastSseEventNoCatch(connections, rcvd, seq, out) ==
    BroadcastLoopNoCatch(connections, 1, rcvd, seq, out)

BroadcastSseEvent(connections, rcvd, seq, out) ==
    BroadcastLoop(connections, 1, rcvd, seq, out)

\* The writes that have thrown so far, as (response, emission number) pairs.
FailedWrites == { w \in Conns \X (1..MaxEvents) : w[2] \in writeFailed[w[1]] }

\* The write outcomes the transport can produce for one broadcast: only the
\* responses in the set are written to.
Outcomes(connections) ==
    { out \in [Conns -> WriteOutcomes] :
        /\ \A c \in Conns : c \notin Range(connections) => out[c] = "ok"
        /\ Cardinality(FailedWrites) + Cardinality({ c \in Conns : out[c] # "ok" })
             <= MaxWriteFailures }

\* Emitting one event: over SSE in HTTP mode, as a stdout line in RPC mode.
Emit(event, out) ==
    /\ Len(emitted) < MaxEvents
    /\ emitted' = Append(emitted, event)
    /\ IF mode = "http"
       THEN /\ received' = BroadcastSseEvent(sseConnections, received,
                                             Len(emitted) + 1, out)
            /\ writeFailed' =
                 [c \in Conns |->
                    IF c \in Range(sseConnections) /\ out[c] # "ok"
                    THEN writeFailed[c] \cup {Len(emitted) + 1}
                    ELSE writeFailed[c]]
       ELSE UNCHANGED <<received, writeFailed>>

Event(type, id) == [type |-> type, id |-> id]

\* --------------------------------------------------------- RPC commands
MAX_BODY_SIZE == 1048576

HEARTBEAT_INTERVAL_MS == 30000

RequestIds == 1..MaxCommands

\* command.id: absent, or the string the caller chose.
NoId == "undefined"
CommandIds == {NoId, "test-cmd-123"}

\* Cases of the dispatcher's switch that stand for the rest: the prompt, which
\* is not awaited, a read, a write that returns without awaiting, and three
\* that await a session method. UnknownType is a type the switch has no case for.
CommandTypes == {"prompt", "get_state", "set_thinking_level", "set_model",
                 "fork", "switch_session"}
UnknownType == "unknown_command_xyz"
AwaitedTypes == {"set_model", "fork", "switch_session"}
\* Commands that name a session object: a model, an entry id, a session path.
NamingTypes == {"set_model", "fork", "switch_session"}

NoCommand == [type |-> "none", id |-> NoId, arg |-> "none"]
\* arg: whether the object the command names exists. The id is optional; the
\* commands sent without one are a get_state and one of unknown type.
Commands ==
    { c \in [type : CommandTypes \cup {UnknownType}, id : CommandIds,
             arg : {"none", "exists", "missing"}] :
        /\ (c.type \in NamingTypes) <=> (c.arg # "none")
        /\ c.id = NoId => c.type \in {"get_state", UnknownType} }

\* Chunk sequences of a request body around the size limit.
LargeChunks ==
    { <<MAX_BODY_SIZE>>, <<MAX_BODY_SIZE - 1, 1>>, <<MAX_BODY_SIZE + 1>>,
      <<MAX_BODY_SIZE, 1>>, <<1, MAX_BODY_SIZE>>, <<MAX_BODY_SIZE - 1, 1, 1>> }
\* The command a body of that size carries.
LargeCommand == [type |-> "set_thinking_level", id |-> "test-cmd-123", arg |-> "none"]

\* POST /rpc requests: no body, a body that is not JSON, JSON without a string
\* type, a command, a command in a body near or over the limit.
RpcRequests ==
    { [chunks |-> <<>>, body |-> "none", cmd |-> NoCommand] }
    \cup { [chunks |-> <<1>>, body |-> b, cmd |-> NoCommand] : b \in {"badjson", "notype"} }
    \cup { [chunks |-> <<1>>, body |-> "command", cmd |-> c] : c \in Commands }
    \cup { [chunks |-> ch, body |-> "command", cmd |-> LargeCommand] : ch \in LargeChunks }

\* stdin lines: one that is not JSON, or a command.
StdinLines ==
    { [body |-> "badjson", cmd |-> NoCommand] }
    \cup { [body |-> "command", cmd |-> c] : c \in Commands }

\* RpcSessionState, as far as the session methods modelled here change it.
InitialSession ==
    [model |-> "m1", thinkingLevel |-> "off", isStreaming |-> FALSE,
     messageCount |-> 0, sessionFile |-> "s1"]
NoData ==
    [model |-> "none", thinkingLevel |-> "none", isStreaming |-> FALSE,
     messageCount |-> 0, sessionFile |-> "none"]

NoRequest == [st |-> "none", body |-> "none", size |-> 0, cmd |-> NoCommand]
NoResponse ==
    [status |-> -1, type |-> "none", id |-> NoId, command |-> "none",
     success |-> FALSE, error |-> "none", data |-> NoData]
NoTurn == [st |-> "none", delivered |-> FALSE]

\* success(id, command, data) and error(id, command, message) of rpc-commands.ts.
Success(id, command, data) ==
    [status |-> -1, type |-> "response", id |-> id, command |-> command,
     success |-> TRUE, error |-> "none", data |-> data]

Error(id, command, message) ==
    [status |-> -1, type |-> "response", id |-> id, command |-> command,
     success |-> FALSE, error |-> message, data |-> NoData]

\* sendJson(res, status, response); a stdout line has status 0.
SendJson(status, response) == [response EXCEPT !.status = status]

\* sendError(res, status, message): the body is {error: message}.
SendError(status, message) ==
    [status |-> status, type |-> "error", id |-> NoId, command |-> "none",
     success |-> FALSE, error |-> message, data |-> NoData]

\* ------------------------------------------------------ package manager
\* A path is the sequence of its segments, relative to the base directory.
\* The files below the directory "ext", in the order readdir lists them.
DirListing == << <<"ext", "a.ts">>, <<"ext", "b.ts">>, <<"ext", "old", "c.ts">> >>

\* The base directory (cwd, or the package root) as an absolute path.
BaseDir == <<"", "home", "project">>

\* Globs: a sequence of segments, "*" for one segment, "**" for any number.
Globs == { <<"*">>, <<"**", "a.ts">>, <<"ext", "*">>, <<"**", "old", "*">> }

\* An entry of a settings or manifest array: the first character if it is
\* "!" or "+" (else ""), and the rest.
Prefixes == {"", "!", "+"}
Patterns == [prefix : Prefixes, glob : Globs]
DirEntry == [prefix |-> "", glob |-> <<"ext">>]

\* Lists of at most n patterns.
RECURSIVE PatternListsUpTo(_)
PatternListsUpTo(n) ==
    IF n = 0 THEN {<<>>}
    ELSE PatternListsUpTo(n - 1) \cup
         { Append(l, q) : l \in { m \in PatternListsUpTo(n - 1) : Len(m) = n - 1 },
                          q \in Patterns }

PatternLists == PatternListsUpTo(MaxPatterns)

\* A package source as written in settings.packages: what it starts with
\* ("npm:", "git:", "https://" or nothing), the name, path or repository as
\* segments, and what follows an "@" ("" if there is none).
Sources ==
    { [scheme |-> "npm:", name |-> <<"foo">>, ref |-> ""],
      [scheme |-> "npm:", name |-> <<"foo">>, ref |-> "1.0.0"],
      [scheme |-> "git:", name |-> <<"github.com", "user", "repo">>, ref |-> ""],
      [scheme |-> "git:", name |-> <<"github.com", "user", "repo">>, ref |-> "v1"],
      [scheme |-> "https://", name |-> <<"github.com", "user", "repo">>, ref |-> ""],
      [scheme |-> "", name |-> <<"pkg">>, ref |-> ""],
      [scheme |-> "", name |-> <<".", "pkg">>, ref |-> ""] }

GIT_HOSTS == {"github.com", "gitlab.com", "bitbucket.org", "codeberg.org"}

\* Lists of at most n package sources.
RECURSIVE SourceListsUpTo(_)
SourceListsUpTo(n) ==
    IF n = 0 THEN {<<>>}
    ELSE SourceListsUpTo(n - 1) \cup
         { Append(l, q) : l \in { m \in SourceListsUpTo(n - 1) : Len(m) = n - 1 },
                          q \in Sources }

PackageLists == SourceListsUpTo(MaxPackages)

NoSource == [scheme |-> "none", name |-> <<>>, ref |-> ""]
\* global, project: settings.packages of the two settings files;
\* globalExtensions, projectExtensions: their settings.extensions.
NoCall ==
    [op |-> "none", entries |-> <<>>, manifest |-> <<>>, global |-> <<>>,
     project |-> <<>>, globalExtensions |-> <<>>, projectExtensions |-> <<>>,
     source |-> NoSource, scope |-> "none"]
\* calls: the updateSourceForScope calls update() has still to make.
NoOperation ==
    [st |-> "idle", action |-> "none", source |-> NoSource, scope |-> "none",
     calls |-> <<>>]

\* The sources install, remove and update are called with or find configured.
OperationSources ==
    { q \in Sources : q.scheme \in {"npm:", "git:"} \/ q.name = <<"pkg">> }

\* settings.packages holds npm and git sources: one of each, and a pinned one.
ConfiguredPackages ==
    { q \in Sources : q.scheme = "npm:" \/ (q.scheme = "git:" /\ q.ref = "") }

\* Lists of at most n of them.
RECURSIVE OperationListsUpTo(_)
OperationListsUpTo(n) ==
    IF n = 0 THEN {<<>>}
    ELSE OperationListsUpTo(n - 1) \cup
         { Append(l, q) : l \in { m \in OperationListsUpTo(n - 1) : Len(m) = n - 1 },
                          q \in ConfiguredPackages }

\* settings.extensions: nothing, a local directory, or a source written there.
ExtensionEntryLists ==
    { <<>>, << [scheme |-> "", name |-> <<"ext">>, ref |-> ""] >>,
      << [scheme |-> "npm:", name |-> <<"foo">>, ref |-> ""] >> }

\* --------------------------------------------------------------- Init
\* ------------------------------------------------------------ settings
\* A key that is not set: absent from the object, or set to undefined.
Undefined == "undefined"

\* A nested settings object that is not there.
NoObject == [has |-> FALSE, enabled |-> Undefined, reserveTokens |-> Undefined]

\* Settings with a string key, an array key and a nested object.
EmptySettings == [shellPath |-> Undefined, packages |-> Undefined, compaction |-> NoObject]

\* The settings files and arguments the manager is tried with.
SettingsSamples ==
    { EmptySettings,
      [EmptySettings EXCEPT !.shellPath = "sh"],
      [EmptySettings EXCEPT !.compaction = [NoObject EXCEPT !.has = TRUE, !.enabled = "true"]],
      [EmptySettings EXCEPT !.packages = "npm:foo",
                            !.compaction = [NoObject EXCEPT !.has = TRUE, !.reserveTokens = "100"]],
      [EmptySettings EXCEPT !.shellPath = "zsh",
                            !.compaction = [has |-> TRUE, enabled |-> "false",
                                            reserveTokens |-> "200"]] }

NoSettingsCall == [op |-> "none", wrote |-> TRUE]

\* ------------------------------------------------------------ model registry
\* What loadModels() puts into this.models: the built-in models.
BuiltInModels ==
    << [provider |-> "anthropic", id |-> "claude-a", api |-> "anthropic-messages",
        baseUrl |-> "https://api.anthropic.com"],
       [provider |-> "anthropic", id |-> "claude-b", api |-> "anthropic-messages",
        baseUrl |-> "https://api.anthropic.com"],
       [provider |-> "openai", id |-> "gpt", api |-> "openai-responses",
        baseUrl |-> "https://api.openai.com"] >>

\* The providers registerProvider is called for: a built-in one and a new one.
ProviderNames == {"anthropic", "my-proxy"}

\* A ProviderConfigInput with nothing set.
EmptyConfig ==
    [baseUrl |-> Undefined, apiKey |-> Undefined, api |-> Undefined, oauth |-> FALSE,
     streamSimple |-> FALSE, models |-> <<>>]

\* The configurations the registry is tried with: models with everything
\* they need, with oauth in place of an apiKey, without baseUrl, without
\* apiKey and oauth, with a model that has no api; a baseUrl alone and with
\* an empty model list; an apiKey alone; streamSimple without and with api.
ConfigSamples ==
    { [EmptyConfig EXCEPT !.baseUrl = "https://proxy", !.apiKey = "KEY",
                          !.api = "openai-completions",
                          !.models = << [id |-> "m1", api |-> Undefined],
                                        [id |-> "m2", api |-> "anthropic-messages"] >>],
      [EmptyConfig EXCEPT !.baseUrl = "https://corp", !.oauth = TRUE,
                          !.models = << [id |-> "m3", api |-> "openai-responses"] >>],
      [EmptyConfig EXCEPT !.apiKey = "KEY", !.api = "openai-completions",
                          !.models = << [id |-> "m1", api |-> Undefined] >>],
      [EmptyConfig EXCEPT !.baseUrl = "https://proxy", !.api = "openai-completions",
                          !.models = << [id |-> "m1", api |-> Undefined] >>],
      [EmptyConfig EXCEPT !.baseUrl = "https://proxy", !.apiKey = "KEY",
                          !.models = << [id |-> "m2", api |-> "anthropic-messages"],
                                        [id |-> "m1", api |-> Undefined] >>],
      [EmptyConfig EXCEPT !.baseUrl = "https://proxy"],
      [EmptyConfig EXCEPT !.baseUrl = "https://corp", !.apiKey = "KEY"],
      [EmptyConfig EXCEPT !.apiKey = "KEY"],
      [EmptyConfig EXCEPT !.streamSimple = TRUE, !.baseUrl = "https://proxy"],
      [EmptyConfig EXCEPT !.streamSimple = TRUE, !.api = "openai-completions",
                          !.baseUrl = "https://proxy", !.apiKey = "KEY",
                          !.models = << [id |-> "m1", api |-> Undefined] >>] }

NoRegistryCall == [op |-> "none", name |-> "", config |-> EmptyConfig, thrown |-> "none"]

Init ==
    /\ mode \in Modes
    /\ pc = "running"
    /\ subscribed = TRUE
    /\ heartbeatTimer = (mode = "http")
    /\ shutdownRequested = FALSE
    /\ sseConnections = <<>>
    /\ conn = [c \in Conns |-> "new"]
    /\ emitted = <<>>
    /\ received = [c \in Conns |-> <<>>]
    /\ attachedAt = [c \in Conns |-> 0]
    /\ writeFailed = [c \in Conns |-> {}]
    /\ pendingExtensionRequests = {}
    /\ method = [d \in DialogIds |-> "none"]
    /\ promise = [d \in DialogIds |-> Unissued]
    /\ timerArmed = [d \in DialogIds |-> FALSE]
    /\ signal = [d \in DialogIds |-> "none"]
    /\ listening = [d \in DialogIds |-> FALSE]
    /\ settledBy = [d \in DialogIds |-> "none"]
    /\ lastReply = NoReply
    /\ requests = [k \in RequestIds |-> NoRequest]
    /\ responses = [k \in RequestIds |-> NoResponse]
    /\ sessionOps = [k \in RequestIds |-> {}]
    /\ session = InitialSession
    /\ turn = [k \in RequestIds |-> NoTurn]
    /\ overdue = [k \in RequestIds |-> FALSE]
    /\ stateRead = NoData
    /\ quiet = "quiet"
    /\ sessionShutdowns = 0
    /\ exitCode = -1
    /\ triggers = 0
    /\ shutdownImmediates = 0
    /\ shutdown204 = 0
    /\ sinceHeartbeat = 0
    /\ pmCall = NoCall
    /\ target = <<>>
    /\ packageSources = <<>>
    /\ progressEvents = <<>>
    /\ operation = NoOperation
    /\ thrown = "none"
    /\ commandsRun = <<>>
    /\ manager = "none"
    /\ globalSettings = EmptySettings
    /\ inMemoryProjectSettings = EmptySettings
    /\ settings = EmptySettings
    /\ globalFile = EmptySettings
    /\ projectFile = EmptySettings
    /\ lastCall = NoSettingsCall
    /\ overridden = EmptySettings
    /\ settingsCalls = 0
    /\ models = BuiltInModels
    /\ customProviderApiKeys = [n \in ProviderNames |-> Undefined]
    /\ registeredProviders = <<>>
    /\ oauthProviders = {}
    /\ apiProviders = {}
    /\ registryCall = NoRegistryCall
    /\ before = [models |-> BuiltInModels, registeredProviders |-> <<>>]
    /\ registryCalls = 0

\* The http.Server refuses to route: isShuttingDown is set by close().
IsShuttingDown == pc \in {"closing", "exited"}

\* ------------------------------------------------------ SSE event plane
\* GET /events (createEventsHandler), or the 503 of a server that is closing.
\* Every request brings a new response object: the lowest unused one.
EventsRequest(c) ==
    /\ mode = "http"
    /\ pc # "exited"
    /\ conn[c] = "new"
    /\ \A b \in Conns : b < c => conn[b] # "new"
    /\ IF IsShuttingDown
       THEN /\ conn' = [conn EXCEPT ![c] = "ended"]
            /\ lastReply' = Reply("events", 503, UnknownId, "refused", EmptyResponse)
            /\ UNCHANGED <<sseConnections, attachedAt>>
       ELSE /\ conn' = [conn EXCEPT ![c] = "open"]
            /\ sseConnections' = Append(Without(sseConnections, c), c)
            /\ attachedAt' = [attachedAt EXCEPT ![c] = Len(emitted)]
            /\ lastReply' = Reply("events", 200, UnknownId, "none", EmptyResponse)
    /\ UNCHANGED <<received, writeFailed, emitted>>
    /\ UNCHANGED dialogVars
    /\ UNCHANGED lifeVars
    /\ UNCHANGED rpcVars
    /\ UNCHANGED exitVars
    /\ UNCHANGED routeVars
    /\ UNCHANGED timeVars
    /\ UNCHANGED pkgVars
    /\ UNCHANGED settingsVars
    /\ UNCHANGED registryVars

\* res.on("close"): the response is deleted from the set.
OnClose(c) ==
    /\ mode = "http"
    /\ pc # "exited"
    /\ conn[c] \in {"open", "ended"}
    /\ conn' = [conn EXCEPT ![c] = "closed"]
    /\ sseConnections' = Without(sseConnections, c)
    /\ lastReply' = NoReply
    /\ UNCHANGED <<received, attachedAt, writeFailed, emitted>>
    /\ UNCHANGED dialogVars
    /\ UNCHANGED lifeVars
    /\ UNCHANGED rpcVars
    /\ UNCHANGED exitVars
    /\ UNCHANGED routeVars
    /\ UNCHANGED timeVars
    /\ UNCHANGED pkgVars
    /\ UNCHANGED settingsVars
    /\ UNCHANGED registryVars

\* session.subscribe callback: every session event is an agent_event.
SessionEvent ==
    /\ pc # "exited"
    /\ subscribed
    /\ \E out \in Outcomes(sseConnections) : Emit(Event("agent_event", UnknownId), out)
    /\ lastReply' = NoReply
    /\ UNCHANGED <<sseConnections, conn, attachedAt>>
    /\ UNCHANGED dialogVars
    /\ UNCHANGED lifeVars
    /\ UNCHANGED rpcVars
    /\ UNCHANGED exitVars
    /\ UNCHANGED routeVars
    /\ UNCHANGED timeVars
    /\ UNCHANGED pkgVars
    /\ UNCHANGED settingsVars
    /\ UNCHANGED registryVars

\* setInterval callback of HTTP mode: it runs when the interval has elapsed,
\* and the interval starts again.
Heartbeat ==
    /\ mode = "http"
    /\ pc # "exited"
    /\ heartbeatTimer
    /\ sinceHeartbeat = HEARTBEAT_INTERVAL_MS
    /\ sinceHeartbeat' = 0
    /\ \E out \in Outcomes(sseConnections) : Emit(Event("heartbeat", UnknownId), out)
    /\ lastReply' = NoReply
    /\ UNCHANGED <<sseConnections, conn, attachedAt>>
    /\ UNCHANGED dialogVars
    /\ UNCHANGED lifeVars
    /\ UNCHANGED rpcVars
    /\ UNCHANGED exitVars
    /\ UNCHANGED routeVars
    /\ UNCHANGED pkgVars
    /\ UNCHANGED settingsVars
    /\ UNCHANGED registryVars

\* Time passes while the interval is set, up to the moment it is due.
TimePasses ==
    /\ mode = "http"
    /\ pc # "exited"
    /\ heartbeatTimer
    /\ \E dt \in {HEARTBEAT_INTERVAL_MS \div 2, HEARTBEAT_INTERVAL_MS} :
         /\ sinceHeartbeat + dt <= HEARTBEAT_INTERVAL_MS
         /\ sinceHeartbeat' = sinceHeartbeat + dt
    /\ lastReply' = NoReply
    /\ UNCHANGED emitted
    /\ UNCHANGED sseVars
    /\ UNCHANGED dialogVars
    /\ UNCHANGED lifeVars
    /\ UNCHANGED rpcVars
    /\ UNCHANGED exitVars
    /\ UNCHANGED routeVars
    /\ UNCHANGED pkgVars
    /\ UNCHANGED settingsVars
    /\ UNCHANGED registryVars

\* -------------------------------------------------- extension UI bridge
\* opts.timeout of a dialog call: 0 stands for undefined or 0 (both falsy).
Timeouts == {0, 1}

\* A confirm whose default is undefined, like the other dialogs'.
DefaultValueUndefined(m) == "undefined"

\* defaultValue of select / confirm / input; the editor resolves undefined.
DefaultValue(m) == IF m = "confirm" THEN "false" ELSE "undefined"

\* A parseResponse that never reads the response.
ParseResponseIgnored(m, r) == IF m = "confirm" THEN "false" ELSE "undefined"

\* parseResponse of select, input and the editor's resolve; of confirm.
ParseResponse(m, r) ==
    IF m = "confirm"
    THEN IF r.cancelled THEN "false"
         ELSE IF r.field = "confirmed" THEN r.v ELSE "false"
    ELSE IF r.cancelled THEN "undefined"
         ELSE IF r.field = "value" THEN r.v ELSE "undefined"

\* A cleanup() that leaves the entry in the map.
CleanupKeepsEntry(d) ==
    /\ timerArmed' = [timerArmed EXCEPT ![d] = FALSE]
    /\ listening' = [listening EXCEPT ![d] = FALSE]
    /\ pendingExtensionRequests' = pendingExtensionRequests

\* cleanup() of createDialogPromise: clearTimeout, removeEventListener, delete.
Cleanup(d) ==
    /\ timerArmed' = [timerArmed EXCEPT ![d] = FALSE]
    /\ listening' = [listening EXCEPT ![d] = FALSE]
    /\ pendingExtensionRequests' = pendingExtensionRequests \ {d}

\* resolve(value) / reject(error) of the dialog's promise, and what settled it.
SettlePromise(d, outcome, by) ==
    /\ promise' = [promise EXCEPT ![d] = Settle(@, outcome)]
    /\ settledBy' = [settledBy EXCEPT ![d] = IF promise[d].st = "pending" THEN by ELSE @]

\* select / confirm / input (createDialogPromise) and editor, in either mode.
\* Every call is a new one: the lowest unused id.
IssueDialog(d, m, timeout, sig) ==
    /\ pc # "exited"
    /\ method[d] = "none"
    /\ \A b \in DialogIds : b < d => method[b] # "none"
    /\ m = "editor" => (timeout = 0 /\ sig = "none")
    /\ method' = [method EXCEPT ![d] = m]
    /\ signal' = [signal EXCEPT ![d] = sig]
    /\ lastReply' = NoReply
    /\ IF sig = "aborted"
       THEN /\ promise' = [promise EXCEPT ![d] = Resolved(DefaultValue(m))]
            /\ settledBy' = [settledBy EXCEPT ![d] = "preaborted"]
            /\ UNCHANGED <<pendingExtensionRequests, timerArmed, listening,
                           emitted, received, writeFailed>>
       ELSE /\ promise' = [promise EXCEPT ![d] = Pending]
            /\ listening' = [listening EXCEPT ![d] = (sig = "live")]
            /\ timerArmed' = [timerArmed EXCEPT ![d] = (timeout # 0)]
            /\ pendingExtensionRequests' = pendingExtensionRequests \cup {d}
            /\ \E out \in Outcomes(sseConnections) :
                 Emit(Event("extension_ui_request", d), out)
            /\ UNCHANGED settledBy
    /\ UNCHANGED <<sseConnections, conn, attachedAt>>
    /\ UNCHANGED lifeVars
    /\ UNCHANGED rpcVars
    /\ UNCHANGED exitVars
    /\ UNCHANGED routeVars
    /\ UNCHANGED timeVars
    /\ UNCHANGED pkgVars
    /\ UNCHANGED settingsVars
    /\ UNCHANGED registryVars

\* notify, setStatus, setWidget, setTitle, setEditorText of the UI context.
FireAndForgetMethods == {"notify", "setStatus", "setWidget", "setTitle", "set_editor_text"}

\* The content argument of setWidget: undefined, an array of lines, or a
\* component factory; the other methods have none.
WidgetContents == {"undefined", "lines", "factory"}

\* A setWidget that sends whatever the content is.
SendsRequestAlways(m, content) == TRUE

\* Whether the method sends an extension_ui_request: setWidget only for
\* content === undefined || Array.isArray(content).
SendsRequest(m, content) == m # "setWidget" \/ content \in {"undefined", "lines"}

\* One of the five void methods is called, in either mode: the request gets
\* a fresh crypto.randomUUID() that is stored nowhere, is broadcast (written
\* to stdout), and the method returns.
FireAndForget(m, content) ==
    /\ pc # "exited"
    /\ (m = "setWidget") <=> (content # "none")
    /\ lastReply' = Reply(m, 0, UnknownId, content, EmptyResponse)
    /\ IF SendsRequest(m, content)
       THEN \E out \in Outcomes(sseConnections) :
              Emit(Event("extension_ui_request", UnknownId), out)
       ELSE UNCHANGED <<emitted, received, writeFailed>>
    /\ UNCHANGED <<sseConnections, conn, attachedAt>>
    /\ UNCHANGED dialogVars
    /\ UNCHANGED lifeVars
    /\ UNCHANGED rpcVars
    /\ UNCHANGED exitVars
    /\ UNCHANGED routeVars
    /\ UNCHANGED timeVars
    /\ UNCHANGED pkgVars
    /\ UNCHANGED settingsVars
    /\ UNCHANGED registryVars

\* The setTimeout callback of createDialogPromise.
OnTimeout(d) ==
    /\ pc # "exited"
    /\ timerArmed[d]
    /\ Cleanup(d)
    /\ SettlePromise(d, Resolved(DefaultValue(method[d])), "timeout")
    /\ lastReply' = NoReply
    /\ UNCHANGED <<method, signal, emitted>>
    /\ UNCHANGED sseVars
    /\ UNCHANGED lifeVars
    /\ UNCHANGED rpcVars
    /\ UNCHANGED exitVars
    /\ UNCHANGED routeVars
    /\ UNCHANGED timeVars
    /\ UNCHANGED pkgVars
    /\ UNCHANGED settingsVars
    /\ UNCHANGED registryVars

\* The signal passed to the dialog aborts; onAbort runs if still registered.
OnAbort(d) ==
    /\ pc # "exited"
    /\ signal[d] = "live"
    /\ signal' = [signal EXCEPT ![d] = "aborted"]
    /\ IF listening[d]
       THEN /\ Cleanup(d)
            /\ SettlePromise(d, Resolved(DefaultValue(method[d])), "abort")
       ELSE UNCHANGED <<timerArmed, listening, pendingExtensionRequests,
                        promise, settledBy>>
    /\ lastReply' = NoReply
    /\ UNCHANGED <<method, emitted>>
    /\ UNCHANGED sseVars
    /\ UNCHANGED lifeVars
    /\ UNCHANGED rpcVars
    /\ UNCHANGED exitVars
    /\ UNCHANGED routeVars
    /\ UNCHANGED timeVars
    /\ UNCHANGED pkgVars
    /\ UNCHANGED settingsVars
    /\ UNCHANGED registryVars

\* The entry stored under id d is deleted by the caller and its resolve is
\* called: the dialogs run cleanup() and resolve with parseResponse(response),
\* the editor resolves with the value read off the response.
PendingResolve(d, r) ==
    /\ IF method[d] = "editor"
       THEN /\ pendingExtensionRequests' = pendingExtensionRequests \ {d}
            /\ UNCHANGED <<timerArmed, listening>>
       ELSE Cleanup(d)
    /\ SettlePromise(d, Resolved(ParseResponse(method[d], r)), "response")

\* Request bodies POST /extension_ui_response can carry: none, one that is
\* not JSON, one without type or id, and a well-formed response.
Bodies == {"none", "badjson", "invalid", "ok"}
UiRequests ==
    { [body |-> "ok", id |-> id, r |-> r] : id \in ResponseIds, r \in Responses }
    \cup { [body |-> b, id |-> UnknownId, r |-> EmptyResponse] : b \in Bodies \ {"ok"} }

\* The handler that finds an unknown id an error and stores nothing else.
ExtensionUIResponseHandlerStrict(body, id, r) ==
    /\ mode = "http"
    /\ pc # "exited"
    /\ IF IsShuttingDown
       THEN /\ lastReply' = Reply("extension_ui_response", 503, UnknownId, "refused", EmptyResponse)
            /\ UNCHANGED dialogVars
       ELSE IF body # "ok"
       THEN /\ lastReply' = Reply("extension_ui_response", 400, UnknownId, "malformed", EmptyResponse)
            /\ UNCHANGED dialogVars
       ELSE IF id \notin pendingExtensionRequests
       THEN /\ lastReply' = Reply("extension_ui_response", 404, id, "unknown", EmptyResponse)
            /\ UNCHANGED dialogVars
       ELSE /\ PendingResolve(id, r)
            /\ lastReply' = Reply("extension_ui_response", 200, id, "resolved", r)
            /\ UNCHANGED <<method, signal>>
    /\ UNCHANGED emitted
    /\ UNCHANGED sseVars
    /\ UNCHANGED lifeVars
    /\ UNCHANGED rpcVars
    /\ UNCHANGED exitVars
    /\ UNCHANGED routeVars
    /\ UNCHANGED timeVars
    /\ UNCHANGED pkgVars
    /\ UNCHANGED settingsVars
    /\ UNCHANGED registryVars

\* POST /extension_ui_response (createExtensionUIResponseHandler), or the 503
\* of a server that is closing.
ExtensionUIResponseHandler(body, id, r) ==
    /\ mode = "http"
    /\ pc # "exited"
    /\ IF IsShuttingDown
       THEN /\ lastReply' = Reply("extension_ui_response", 503, UnknownId, "refused", EmptyResponse)
            /\ UNCHANGED dialogVars
       ELSE IF body # "ok"
       THEN /\ lastReply' = Reply("extension_ui_response", 400, UnknownId, "malformed", EmptyResponse)
            /\ UNCHANGED dialogVars
       ELSE IF id \notin pendingExtensionRequests
       THEN /\ lastReply' = Reply("extension_ui_response", 200, id, "unknown", EmptyResponse)
            /\ UNCHANGED dialogVars
       ELSE /\ PendingResolve(id, r)
            /\ lastReply' = Reply("extension_ui_response", 200, id, "resolved", r)
            /\ UNCHANGED <<method, signal>>
    /\ UNCHANGED emitted
    /\ UNCHANGED sseVars
    /\ UNCHANGED lifeVars
    /\ UNCHANGED rpcVars
    /\ UNCHANGED exitVars
    /\ UNCHANGED routeVars
    /\ UNCHANGED timeVars
    /\ UNCHANGED pkgVars
    /\ UNCHANGED settingsVars
    /\ UNCHANGED registryVars

\* A stdin line of type extension_ui_response (rl.on("line") of runRpcMode):
\* nothing is written to stdout for it.
RpcExtensionUIResponse(id, r) ==
    /\ mode = "rpc"
    /\ pc # "exited"
    /\ IF id \in pendingExtensionRequests
       THEN /\ PendingResolve(id, r)
            /\ lastReply' = Reply("stdin_ui_response", 0, id, "resolved", r)
            /\ UNCHANGED <<method, signal>>
       ELSE /\ lastReply' = Reply("stdin_ui_response", 0, id, "unknown", EmptyResponse)
            /\ UNCHANGED dialogVars
    /\ UNCHANGED emitted
    /\ UNCHANGED sseVars
    /\ UNCHANGED lifeVars
    /\ UNCHANGED rpcVars
    /\ UNCHANGED exitVars
    /\ UNCHANGED routeVars
    /\ UNCHANGED timeVars
    /\ UNCHANGED pkgVars
    /\ UNCHANGED settingsVars
    /\ UNCHANGED registryVars

\* -------------------------------------------------------- RPC dispatcher
\* A limit that a body of exactly MAX_BODY_SIZE bytes already exceeds.
ExceedsLimitInclusive(size) == size >= MAX_BODY_SIZE

\* The test of parseBody's "data" handler.
ExceedsLimit(size) == size > MAX_BODY_SIZE

\* parseBody from chunk i on, size bytes read so far: the "data" handler
\* rejects once the size exceeds the limit, the "end" handler resolves.
RECURSIVE ParseBodyFrom(_, _, _)
ParseBodyFrom(chunks, i, size) ==
    IF i > Len(chunks) THEN [rejected |-> FALSE, size |-> size]
    ELSE IF ExceedsLimit(size + chunks[i])
         THEN [rejected |-> TRUE, size |-> size + chunks[i]]
         ELSE ParseBodyFrom(chunks, i + 1, size + chunks[i])

ParseBody(chunks) == ParseBodyFrom(chunks, 1, 0)

\* A validation that does not look at the type field.
ValidateBodyNoTypeCheck(body) ==
    IF body = "none" THEN "Request body required"
    ELSE IF body = "badjson" THEN "Invalid JSON"
    ELSE "ok"

\* The checks of createRpcHandler before it dispatches.
ValidateBody(body) ==
    IF body = "none" THEN "Request body required"
    ELSE IF body = "badjson" THEN "Invalid JSON"
    ELSE IF body = "notype" THEN "Invalid command: missing type field"
    ELSE "ok"

\* A status that does not depend on the response.
HttpStatusOk(response) == 200

\* createRpcHandler: response.success ? 200 : 400.
HttpStatus(response) == IF response.success THEN 200 ELSE 400

\* The response leaves by the transport of the running mode.
Deliver(response) ==
    IF mode = "http" THEN SendJson(HttpStatus(response), response)
    ELSE SendJson(0, response)

\* The command's promise rejected. createRpcHandler answers 500 with the
\* command's id and type; the stdin handler's catch writes a "parse" error.
Thrown(cmd, message) ==
    IF mode = "http" THEN SendJson(500, Error(cmd.id, cmd.type, message))
    ELSE SendJson(0, Error(NoId, "parse", "Failed to parse command"))

\* The session method each case calls before its first await or its return.
FirstOp(type) ==
    CASE type = "prompt" -> {"prompt"}
      [] type = "set_thinking_level" -> {"setThinkingLevel"}
      [] type = "set_model" -> {"getAvailableModels"}
      [] type = "fork" -> {"fork"}
      [] type = "switch_session" -> {"switchSession"}
      [] OTHER -> {}

\* What a session method does to the fields get_state reads: prompt() appends
\* the user message and starts streaming, setThinkingLevel() and setModel()
\* set their field, fork() and switchSession() move to another session file.
SessionCall(op, s) ==
    CASE op = "prompt" -> [s EXCEPT !.isStreaming = TRUE, !.messageCount = @ + 1]
      [] op = "setThinkingLevel" -> [s EXCEPT !.thinkingLevel = "high"]
      [] op = "setModel" -> [s EXCEPT !.model = "m2"]
      [] op \in {"fork", "switchSession"} ->
           [s EXCEPT !.sessionFile = "s2", !.messageCount = 0]
      [] OTHER -> s

\* A get_state case that leaves a message of its own in the session.
SessionStartedCountingReads(cmd, s) ==
    CASE cmd.type = "prompt" -> SessionCall("prompt", s)
      [] cmd.type = "set_thinking_level" -> SessionCall("setThinkingLevel", s)
      [] cmd.type = "get_state" -> [s EXCEPT !.messageCount = @ + 1]
      [] OTHER -> s

\* The session after the case's code before its first await or its return:
\* the prompt case calls session.prompt(), set_thinking_level calls
\* session.setThinkingLevel(), get_state only reads, the rest await first.
SessionStarted(cmd, s) ==
    CASE cmd.type = "prompt" -> SessionCall("prompt", s)
      [] cmd.type = "set_thinking_level" -> SessionCall("setThinkingLevel", s)
      [] OTHER -> s

\* The session once the awaited method of the command has settled: set_model
\* calls session.setModel() for a model it found; session.fork() and
\* session.switchSession() have run for an object that exists.
SessionSettled(cmd, s) ==
    CASE cmd.type = "set_model" /\ cmd.arg = "exists" -> SessionCall("setModel", s)
      [] cmd.type = "fork" /\ cmd.arg = "exists" -> SessionCall("fork", s)
      [] cmd.type = "switch_session" /\ cmd.arg = "exists" ->
           SessionCall("switchSession", s)
      [] OTHER -> s

\* session.fork / session.switchSession reject for an object that is not there.
Throws(cmd) == cmd.type \in {"fork", "switch_session"} /\ cmd.arg = "missing"

\* A dispatcher that awaits session.prompt() like the other session methods.
ReturnedAwaitingPrompt(cmd) ==
    CASE cmd.type = "get_state" -> Deliver(Success(cmd.id, "get_state", session))
      [] cmd.type = "set_thinking_level" ->
           Deliver(Success(cmd.id, "set_thinking_level", NoData))
      [] cmd.type \in AwaitedTypes \cup {"prompt"} -> NoResponse
      [] OTHER -> Deliver(Error(NoId, cmd.type, "Unknown command"))

\* What the dispatcher returns before any await: the prompt's success, the
\* state, the default branch's error. The awaiting cases have returned nothing yet.
Returned(cmd) ==
    CASE cmd.type = "prompt" -> Deliver(Success(cmd.id, "prompt", NoData))
      [] cmd.type = "get_state" ->
           Deliver(Success(cmd.id, "get_state", session))
      [] cmd.type = "set_thinking_level" ->
           Deliver(Success(cmd.id, "set_thinking_level", NoData))
      [] cmd.type \in AwaitedTypes -> NoResponse
      [] OTHER -> Deliver(Error(NoId, cmd.type, "Unknown command"))

\* What the dispatcher returns once the awaited method has settled.
Settled(cmd) ==
    IF Throws(cmd) THEN Thrown(cmd, "session error")
    ELSE IF cmd.type = "set_model" /\ cmd.arg = "missing"
         THEN Deliver(Error(cmd.id, "set_model", "Model not found"))
         ELSE Deliver(Success(cmd.id, cmd.type, NoData))

\* handleCommand(command) up to its first await or its return.
HandleCommand(k, body, cmd, size) ==
    /\ requests' = [requests EXCEPT ![k] =
         [st |-> IF cmd.type \in AwaitedTypes THEN "running" ELSE "done",
          body |-> body, size |-> size, cmd |-> cmd]]
    /\ responses' = [responses EXCEPT ![k] = Returned(cmd)]
    /\ sessionOps' = [sessionOps EXCEPT ![k] = FirstOp(cmd.type)]
    /\ session' = SessionStarted(cmd, session)
    /\ turn' = [turn EXCEPT ![k] =
         IF cmd.type = "prompt" THEN [st |-> "running", delivered |-> FALSE] ELSE @]
    /\ stateRead' = IF cmd.type = "get_state" THEN Returned(cmd).data ELSE stateRead
    /\ quiet' = IF cmd.type = "get_state" THEN "quiet"
                ELSE IF cmd.type \in CommandTypes THEN "issued"
                ELSE quiet

\* checkShutdownRequested of runRpcMode up to its await: with the flag set,
\* session_shutdown goes to the extensions. The flag is left set and the
\* pending map is not looked at.
ShutdownCheck ==
    IF shutdownRequested
    THEN /\ pc' = "emitting"
         /\ sessionShutdowns' = sessionShutdowns + 1
    ELSE UNCHANGED <<pc, sessionShutdowns>>

\* The number of bytes the request sends.
RECURSIVE Total(_)
Total(chunks) == IF chunks = <<>> THEN 0 ELSE Head(chunks) + Total(Tail(chunks))

\* Every request or line is a new one: the lowest unused number.
Fresh(k) ==
    /\ requests[k].st = "none"
    /\ \A j \in RequestIds : j < k => requests[j].st # "none"

\* The request is answered without reaching the dispatcher.
Refuse(k, q, size, response) ==
    /\ requests' = [requests EXCEPT ![k] =
         [st |-> "done", body |-> q.body, size |-> size, cmd |-> q.cmd]]
    /\ responses' = [responses EXCEPT ![k] = response]
    /\ UNCHANGED <<sessionOps, session, turn, stateRead, quiet>>

\* POST /rpc: the server's request callback (503 while closing, parseBody,
\* 400 for a body over the limit) and createRpcHandler up to the command's
\* first await.
RpcRequest(k, q) ==
    /\ mode = "http"
    /\ pc # "exited"
    /\ Fresh(k)
    /\ IF IsShuttingDown
       THEN Refuse(k, q, Total(q.chunks), SendError(503, "Server is shutting down"))
       ELSE IF ParseBody(q.chunks).rejected
       THEN Refuse(k, q, Total(q.chunks), SendError(400, "Request body too large"))
       ELSE IF ValidateBody(q.body) # "ok"
       THEN Refuse(k, q, Total(q.chunks), SendError(400, ValidateBody(q.body)))
       ELSE HandleCommand(k, q.body, q.cmd, Total(q.chunks))
    /\ lastReply' = NoReply
    /\ UNCHANGED <<overdue, emitted>>
    /\ UNCHANGED lifeVars
    /\ UNCHANGED exitVars
    /\ UNCHANGED sseVars
    /\ UNCHANGED dialogVars
    /\ UNCHANGED routeVars
    /\ UNCHANGED timeVars
    /\ UNCHANGED pkgVars
    /\ UNCHANGED settingsVars
    /\ UNCHANGED registryVars

\* A catch that writes nothing.
ParseFailureSilent == NoResponse

\* The catch of the line handler: output(error(undefined, "parse", ...)).
ParseFailure == SendJson(0, Error(NoId, "parse", "Failed to parse command"))

\* A stdin line that is not an extension_ui_response: JSON.parse, then
\* handleCommand up to its first await; a command that returned at once is
\* written to stdout and checkShutdownRequested runs. A line that is not
\* JSON lands in the catch.
StdinLine(k, l) ==
    /\ mode = "rpc"
    /\ pc # "exited"
    /\ Fresh(k)
    /\ IF l.body = "badjson"
       THEN /\ Refuse(k, l, 1, ParseFailure)
            /\ UNCHANGED <<pc, sessionShutdowns>>
       ELSE /\ HandleCommand(k, l.body, l.cmd, 1)
            /\ IF l.cmd.type \in AwaitedTypes
               THEN UNCHANGED <<pc, sessionShutdowns>>
               ELSE ShutdownCheck
    /\ lastReply' = NoReply
    /\ UNCHANGED <<overdue, emitted, mode, subscribed, heartbeatTimer,
                   shutdownRequested, exitCode, triggers>>
    /\ UNCHANGED sseVars
    /\ UNCHANGED dialogVars
    /\ UNCHANGED routeVars
    /\ UNCHANGED timeVars
    /\ UNCHANGED pkgVars
    /\ UNCHANGED settingsVars
    /\ UNCHANGED registryVars

\* The session method a command awaits settles and the dispatcher returns.
\* On HTTP the response is sent unless withTimeout has rejected already; on
\* stdin it is written and checkShutdownRequested runs, unless the method
\* threw.
CommandSettles(k) ==
    /\ pc # "exited"
    /\ requests[k].st \in {"running", "timedout"}
    /\ requests' = [requests EXCEPT ![k].st = "done"]
    /\ responses' = [responses EXCEPT ![k] =
         IF requests[k].st = "timedout" THEN @ ELSE Settled(requests[k].cmd)]
    /\ sessionOps' = [sessionOps EXCEPT ![k] =
         IF requests[k].cmd.type = "set_model" /\ requests[k].cmd.arg = "exists"
         THEN @ \cup {"setModel"} ELSE @]
    /\ session' = SessionSettled(requests[k].cmd, session)
    /\ quiet' = IF quiet = "issued" THEN "issued" ELSE "ran"
    /\ IF mode = "rpc" /\ ~Throws(requests[k].cmd)
       THEN ShutdownCheck
       ELSE UNCHANGED <<pc, sessionShutdowns>>
    /\ lastReply' = NoReply
    /\ UNCHANGED <<turn, overdue, stateRead, emitted, mode, subscribed,
                   heartbeatTimer, shutdownRequested, exitCode, triggers>>
    /\ UNCHANGED sseVars
    /\ UNCHANGED dialogVars
    /\ UNCHANGED routeVars
    /\ UNCHANGED timeVars
    /\ UNCHANGED pkgVars
    /\ UNCHANGED settingsVars
    /\ UNCHANGED registryVars

\* RPC_TIMEOUT_MS pass while the command is awaited. On HTTP the setTimeout
\* callback of withTimeout rejects and createRpcHandler answers 500; the
\* command itself goes on. The stdin handler sets no timer.
RpcTimeoutElapses(k) ==
    /\ pc # "exited"
    /\ requests[k].st = "running"
    /\ ~overdue[k]
    /\ overdue' = [overdue EXCEPT ![k] = TRUE]
    /\ IF mode = "http"
       THEN /\ requests' = [requests EXCEPT ![k].st = "timedout"]
            /\ responses' = [responses EXCEPT ![k] =
                 SendJson(500, Error(requests[k].cmd.id, requests[k].cmd.type,
                                     "Command timed out"))]
       ELSE UNCHANGED <<requests, responses>>
    /\ lastReply' = NoReply
    /\ UNCHANGED <<sessionOps, session, turn, stateRead, quiet, emitted>>
    /\ UNCHANGED lifeVars
    /\ UNCHANGED exitVars
    /\ UNCHANGED sseVars
    /\ UNCHANGED dialogVars
    /\ UNCHANGED routeVars
    /\ UNCHANGED timeVars
    /\ UNCHANGED pkgVars
    /\ UNCHANGED settingsVars
    /\ UNCHANGED registryVars

\* An extension calls setThinkingLevel(level) of its action set.
ExtensionSetThinkingLevel ==
    /\ pc # "exited"
    /\ session.thinkingLevel = "off"
    /\ session' = SessionCall("setThinkingLevel", session)
    /\ quiet' = IF quiet = "issued" THEN "issued" ELSE "ran"
    /\ lastReply' = NoReply
    /\ UNCHANGED <<requests, responses, sessionOps, turn, overdue, stateRead, emitted>>
    /\ UNCHANGED lifeVars
    /\ UNCHANGED exitVars
    /\ UNCHANGED sseVars
    /\ UNCHANGED dialogVars
    /\ UNCHANGED routeVars
    /\ UNCHANGED timeVars
    /\ UNCHANGED pkgVars
    /\ UNCHANGED settingsVars
    /\ UNCHANGED registryVars

\* How a turn ends: it completes; the provider fails and the turn ends with
\* an error payload; an error no event can carry is thrown out of
\* session.prompt() after a final event.
TurnOutcomes == {"completed", "failed", "rejected"}

\* The events the session emits when a turn ends, whatever the outcome.
TurnEvents(outcome) == Event("agent_event", UnknownId)

\* The turn of a prompt ends and the session emits its last events, which the
\* session.subscribe callback broadcasts (HTTP) or writes to stdout (stdin).
\* If session.prompt() rejects, the catch calls onAsyncError: in stdin mode
\* it writes an error response to stdout, in HTTP mode it is undefined.
TurnEnds(k, outcome) ==
    /\ pc # "exited"
    /\ turn[k].st = "running"
    /\ subscribed
    /\ session' = [session EXCEPT
         !.isStreaming = \E j \in RequestIds \ {k} : turn[j].st = "running",
         !.messageCount = IF outcome = "completed" THEN @ + 1 ELSE @]
    /\ quiet' = IF quiet = "issued" THEN "issued" ELSE "ran"
    /\ \E out \in Outcomes(sseConnections) : Emit(TurnEvents(outcome), out)
    /\ turn' = [turn EXCEPT ![k] =
         [st |-> outcome, delivered |-> Len(emitted') > Len(emitted)]]
    /\ responses' = [responses EXCEPT ![k] =
         IF outcome = "rejected" /\ mode = "rpc"
         THEN SendJson(0, Error(requests[k].cmd.id, "prompt", "session error"))
         ELSE @]
    /\ lastReply' = NoReply
    /\ UNCHANGED <<requests, sessionOps, overdue, stateRead>>
    /\ UNCHANGED <<sseConnections, conn, attachedAt>>
    /\ UNCHANGED lifeVars
    /\ UNCHANGED exitVars
    /\ UNCHANGED dialogVars
    /\ UNCHANGED routeVars
    /\ UNCHANGED timeVars
    /\ UNCHANGED pkgVars
    /\ UNCHANGED settingsVars
    /\ UNCHANGED registryVars

\* ------------------------------------------------------------ shutdown
\* pending.reject(error) of the entry stored under id d. In HTTP mode the
\* dialogs' handler runs cleanup() and resolves with the default value; the
\* editor's handler deletes the entry and rejects.
PendingReject(p, m, msg) ==
    IF m = "editor" THEN Settle(p, Rejected(msg))
    ELSE Settle(p, Resolved(DefaultValue(m)))

\* A handleShutdown that leaves the interval set.
ClearIntervalNot(timer) == timer

\* if (heartbeatTimer) { clearInterval(heartbeatTimer); heartbeatTimer = undefined }
ClearInterval(timer) == FALSE

\* handleShutdown of runHttpMode up to its first await: the flag, the
\* heartbeat timer, the session subscription, res.end() on every response in
\* the set, sseConnections.clear(); then session_shutdown goes to the extensions.
BeginShutdown ==
    /\ mode = "http"
    /\ pc = "running"
    /\ pc' = "emitting"
    /\ heartbeatTimer' = ClearInterval(heartbeatTimer)
    /\ subscribed' = FALSE
    /\ conn' = [c \in Conns |-> IF c \in Range(sseConnections) THEN "ended" ELSE conn[c]]
    /\ sseConnections' = <<>>
    /\ lastReply' = NoReply
    /\ sessionShutdowns' = sessionShutdowns + 1
    /\ triggers' = triggers + 1
    /\ UNCHANGED <<mode, shutdownRequested, emitted, received, attachedAt, writeFailed,
                   exitCode>>
    /\ UNCHANGED dialogVars
    /\ UNCHANGED rpcVars
    /\ UNCHANGED timeVars
    /\ UNCHANGED pkgVars
    /\ UNCHANGED settingsVars
    /\ UNCHANGED registryVars

\* handleShutdown called by a signal (SIGTERM, SIGINT).
HandleShutdown ==
    /\ BeginShutdown
    /\ UNCHANGED routeVars

\* handleShutdown called again: shutdownInitiated is set and it returns.
ReturnAtOnce ==
    /\ mode = "http"
    /\ pc \in {"emitting", "closing"}
    /\ triggers' = triggers + 1
    /\ lastReply' = NoReply
    /\ UNCHANGED <<emitted, sessionShutdowns, exitCode>>
    /\ UNCHANGED lifeVars
    /\ UNCHANGED sseVars
    /\ UNCHANGED dialogVars
    /\ UNCHANGED rpcVars
    /\ UNCHANGED timeVars
    /\ UNCHANGED pkgVars
    /\ UNCHANGED settingsVars
    /\ UNCHANGED registryVars

\* send204(res) with another status.
Send204AsOk == Reply("shutdown", 200, UnknownId, "none", EmptyResponse)

\* send204(res): res.writeHead(204), res.end().
Send204 == Reply("shutdown", 204, UnknownId, "none", EmptyResponse)

\* POST /shutdown: the server's request callback (503 while closing) and the
\* handler of createShutdownHandler: send204(res), then setImmediate queues
\* the call of options.onShutdown.
ShutdownRequest ==
    /\ mode = "http"
    /\ pc # "exited"
    /\ triggers + shutdownImmediates < MaxTriggers
    /\ IF IsShuttingDown
       THEN /\ lastReply' = Reply("shutdown", 503, UnknownId, "refused", EmptyResponse)
            /\ UNCHANGED routeVars
       ELSE /\ lastReply' = Send204
            /\ shutdown204' = shutdown204 + 1
            /\ shutdownImmediates' = shutdownImmediates + 1
    /\ UNCHANGED emitted
    /\ UNCHANGED sseVars
    /\ UNCHANGED dialogVars
    /\ UNCHANGED lifeVars
    /\ UNCHANGED rpcVars
    /\ UNCHANGED exitVars
    /\ UNCHANGED timeVars
    /\ UNCHANGED pkgVars
    /\ UNCHANGED settingsVars
    /\ UNCHANGED registryVars

\* The setImmediate callback of createShutdownHandler: options.onShutdown(),
\* which is handleShutdown.
ShutdownImmediate ==
    /\ shutdownImmediates > 0
    /\ shutdownImmediates' = shutdownImmediates - 1
    /\ UNCHANGED shutdown204
    /\ BeginShutdown \/ ReturnAtOnce

\* handleShutdown after the extensions have run: every entry of the pending
\* map is rejected and deleted, then serverHandle.close() sets isShuttingDown.
RejectPending ==
    /\ mode = "http"
    /\ pc = "emitting"
    /\ pc' = "closing"
    /\ promise' = [d \in DialogIds |->
                     IF d \in pendingExtensionRequests
                     THEN PendingReject(promise[d], method[d], ShutdownError)
                     ELSE promise[d]]
    /\ settledBy' = [d \in DialogIds |->
                       IF d \in pendingExtensionRequests /\ promise[d].st = "pending"
                       THEN "shutdown" ELSE settledBy[d]]
    /\ timerArmed' = [d \in DialogIds |->
                        IF d \in pendingExtensionRequests /\ method[d] # "editor"
                        THEN FALSE ELSE timerArmed[d]]
    /\ listening' = [d \in DialogIds |->
                       IF d \in pendingExtensionRequests /\ method[d] # "editor"
                       THEN FALSE ELSE listening[d]]
    /\ pendingExtensionRequests' = {}
    /\ lastReply' = NoReply
    /\ UNCHANGED <<mode, subscribed, heartbeatTimer, shutdownRequested, method,
                   signal, emitted>>
    /\ UNCHANGED sseVars
    /\ UNCHANGED rpcVars
    /\ UNCHANGED exitVars
    /\ UNCHANGED routeVars
    /\ UNCHANGED timeVars
    /\ UNCHANGED pkgVars
    /\ UNCHANGED settingsVars
    /\ UNCHANGED registryVars

\* server.close() calls back once no connection is left; then process.exit(0).
ServerClosed ==
    /\ mode = "http"
    /\ pc = "closing"
    /\ \A c \in Conns : conn[c] \in {"new", "closed"}
    /\ \A k \in RequestIds : requests[k].st \in {"none", "done", "timedout"}
    /\ pc' = "exited"
    /\ exitCode' = 0
    /\ lastReply' = NoReply
    /\ UNCHANGED <<mode, subscribed, heartbeatTimer, shutdownRequested, emitted,
                   sessionShutdowns, triggers>>
    /\ UNCHANGED sseVars
    /\ UNCHANGED dialogVars
    /\ UNCHANGED rpcVars
    /\ UNCHANGED routeVars
    /\ UNCHANGED timeVars
    /\ UNCHANGED pkgVars
    /\ UNCHANGED settingsVars
    /\ UNCHANGED registryVars

\* An extension calls shutdown() in RPC mode: only the flag is set.
RequestShutdown ==
    /\ mode = "rpc"
    /\ pc = "running"
    /\ ~shutdownRequested
    /\ shutdownRequested' = TRUE
    /\ lastReply' = NoReply
    /\ UNCHANGED <<mode, pc, subscribed, heartbeatTimer, emitted>>
    /\ UNCHANGED sseVars
    /\ UNCHANGED dialogVars
    /\ UNCHANGED rpcVars
    /\ UNCHANGED exitVars
    /\ UNCHANGED routeVars
    /\ UNCHANGED timeVars
    /\ UNCHANGED pkgVars
    /\ UNCHANGED settingsVars
    /\ UNCHANGED registryVars

\* A command was handled on stdin with the flag set, and the check ran.
CheckShutdownRequested ==
    /\ mode = "rpc"
    /\ pc = "running"
    /\ shutdownRequested
    /\ ShutdownCheck
    /\ lastReply' = NoReply
    /\ UNCHANGED <<mode, subscribed, heartbeatTimer, shutdownRequested, emitted,
                   exitCode, triggers>>
    /\ UNCHANGED sseVars
    /\ UNCHANGED dialogVars
    /\ UNCHANGED rpcVars
    /\ UNCHANGED routeVars
    /\ UNCHANGED timeVars
    /\ UNCHANGED pkgVars
    /\ UNCHANGED settingsVars
    /\ UNCHANGED registryVars

\* checkShutdownRequested after its await: rl.close(), process.exit(0).
RlCloseExit ==
    /\ mode = "rpc"
    /\ pc = "emitting"
    /\ pc' = "exited"
    /\ exitCode' = 0
    /\ lastReply' = NoReply
    /\ UNCHANGED <<mode, subscribed, heartbeatTimer, shutdownRequested, emitted,
                   sessionShutdowns, triggers>>
    /\ UNCHANGED sseVars
    /\ UNCHANGED dialogVars
    /\ UNCHANGED rpcVars
    /\ UNCHANGED routeVars
    /\ UNCHANGED timeVars
    /\ UNCHANGED pkgVars
    /\ UNCHANGED settingsVars
    /\ UNCHANGED registryVars

\* A further signal after the first trigger.
HandleShutdownAgain ==
    /\ triggers + shutdownImmediates < MaxTriggers
    /\ ReturnAtOnce
    /\ UNCHANGED routeVars

\* The http.Server emits "error": process.exit(1).
ServerError ==
    /\ mode = "http"
    /\ pc # "exited"
    /\ pc' = "exited"
    /\ exitCode' = 1
    /\ lastReply' = NoReply
    /\ UNCHANGED <<mode, subscribed, heartbeatTimer, shutdownRequested, emitted,
                   sessionShutdowns, triggers>>
    /\ UNCHANGED sseVars
    /\ UNCHANGED dialogVars
    /\ UNCHANGED rpcVars
    /\ UNCHANGED routeVars
    /\ UNCHANGED timeVars
    /\ UNCHANGED pkgVars
    /\ UNCHANGED settingsVars
    /\ UNCHANGED registryVars

\* ------------------------------------------------- package manager
\* minimatch(path, glob), segment by segment.
RECURSIVE Minimatch(_, _)
Minimatch(path, glob) ==
    IF glob = <<>> THEN path = <<>>
    ELSE IF Head(glob) = "**"
         THEN \/ Minimatch(path, Tail(glob))
              \/ path # <<>> /\ Minimatch(Tail(path), glob)
    ELSE /\ path # <<>>
         /\ Head(glob) \in {"*", Head(path)}
         /\ Minimatch(Tail(path), Tail(glob))

\* basename(filePath)
Basename(filePath) == <<filePath[Len(filePath)]>>

\* matchesAnyPattern: the path relative to the base directory, the file
\* name, or the absolute path matches one of the globs.
MatchesAnyPattern(filePath, globs) ==
    \E i \in 1..Len(globs) :
      \/ Minimatch(filePath, globs[i])
      \/ Minimatch(Basename(filePath), globs[i])
      \/ Minimatch(BaseDir \o filePath, globs[i])

\* The patterns with the given first character, with it sliced off.
Sliced(patterns, prefix) ==
    LET sel == SelectSeq(patterns, LAMBDA q : q.prefix = prefix)
    IN [i \in 1..Len(sel) |-> sel[i].glob]

\* applyPatterns with the force-includes added before the excludes are applied.
ApplyPatternsForceFirst(allPaths, patterns) ==
    LET includes == Sliced(patterns, "")
        excludes == Sliced(patterns, "!")
        forceIncludes == Sliced(patterns, "+")
        step1 == IF Len(includes) = 0 THEN allPaths
                 ELSE SelectSeq(allPaths, LAMBDA f : MatchesAnyPattern(f, includes))
        step2 == step1 \o SelectSeq(allPaths, LAMBDA f :
                     f \notin Range(step1) /\ MatchesAnyPattern(f, forceIncludes))
    IN Range(SelectSeq(step2, LAMBDA f : ~MatchesAnyPattern(f, excludes)))

\* applyPatterns: includes (all paths if there are none), then excludes, then
\* force-includes added back from allPaths; the result as a set.
ApplyPatterns(allPaths, patterns) ==
    LET includes == Sliced(patterns, "")
        excludes == Sliced(patterns, "!")
        forceIncludes == Sliced(patterns, "+")
        step1 == IF Len(includes) = 0 THEN allPaths
                 ELSE SelectSeq(allPaths, LAMBDA f : MatchesAnyPattern(f, includes))
        step2 == IF Len(excludes) > 0
                 THEN SelectSeq(step1, LAMBDA f : ~MatchesAnyPattern(f, excludes))
                 ELSE step1
        step3 == IF Len(forceIncludes) > 0
                 THEN step2 \o SelectSeq(allPaths, LAMBDA f :
                        f \notin Range(step2) /\ MatchesAnyPattern(f, forceIncludes))
                 ELSE step2
    IN Range(step3)

\* isPattern: starts with "!" or "+", or contains a wildcard.
IsPattern(entry) ==
    \/ entry.prefix \in {"!", "+"}
    \/ \E i \in 1..Len(entry.glob) : entry.glob[i] \in {"*", "**"}

\* splitPatterns
SplitPatterns(entries) ==
    [plain |-> SelectSeq(entries, LAMBDA e : ~IsPattern(e)),
     patterns |-> SelectSeq(entries, LAMBDA e : IsPattern(e))]

\* path d is a directory above file f.
IsAbove(d, f) == Len(d) < Len(f) /\ SubSeq(f, 1, Len(d)) = d

\* collectFilesFromPaths: a file is taken as it is, a directory gives the
\* files below it, a path that does not exist gives nothing.
RECURSIVE CollectFilesFromPaths(_)
CollectFilesFromPaths(paths) ==
    IF paths = <<>> THEN <<>>
    ELSE SelectSeq(DirListing, LAMBDA f : f = Head(paths) \/ IsAbove(Head(paths), f))
         \o CollectFilesFromPaths(Tail(paths))

\* addResource: the first entry for a path stays.
AddResource(map, path, enabled) ==
    IF \E i \in 1..Len(map) : map[i].path = path THEN map
    ELSE Append(map, [path |-> path, enabled |-> enabled])

\* for (const f of allFiles) addResource(target, f, metadata, enabled.has(f))
RECURSIVE AddResources(_, _, _)
AddResources(map, allFiles, enabled) ==
    IF allFiles = <<>> THEN map
    ELSE AddResources(AddResource(map, Head(allFiles), Head(allFiles) \in enabled),
                      Tail(allFiles), enabled)

\* resolveLocalEntries
ResolveLocalEntries(entries, map) ==
    IF Len(entries) = 0 THEN map
    ELSE LET split == SplitPatterns(entries)
             resolvedPlain == [i \in 1..Len(split.plain) |-> split.plain[i].glob]
             allFiles == CollectFilesFromPaths(resolvedPlain)
             enabledPaths == ApplyPatterns(allFiles, split.patterns)
         IN AddResources(map, allFiles, enabledPaths)

\* The variables of the control plane, which the package manager leaves alone.
planeVars == <<lifeVars, sseVars, dialogVars, rpcVars, exitVars, routeVars, timeVars,
               emitted, lastReply>>

\* resolve() comes to the top-level entries of one resource type: the
\* directory "ext" and a list of patterns.
CallResolveLocalEntries(patterns) ==
    /\ pmCall = NoCall
    /\ pmCall' = [NoCall EXCEPT !.op = "resolveLocalEntries",
                                !.entries = <<DirEntry>> \o patterns]
    /\ target' = ResolveLocalEntries(<<DirEntry>> \o patterns, target)
    /\ UNCHANGED <<packageSources, progressEvents, operation, thrown, commandsRun>>
    /\ UNCHANGED planeVars
    /\ UNCHANGED settingsVars
    /\ UNCHANGED registryVars

\* collectManifestFiles: the files the manifest's plain entries give and
\* those its patterns enable; without manifest entries, the convention
\* directory with everything enabled.
CollectManifestFiles(entries) ==
    IF Len(entries) > 0
    THEN LET split == SplitPatterns(entries)
             allFiles == CollectFilesFromPaths(
                           [i \in 1..Len(split.plain) |-> split.plain[i].glob])
         IN [allFiles |-> allFiles,
             enabledByManifest |->
               IF Len(split.patterns) > 0 THEN ApplyPatterns(allFiles, split.patterns)
               ELSE Range(allFiles)]
    ELSE LET allFiles == CollectFilesFromPaths(<<DirEntry.glob>>)
         IN [allFiles |-> allFiles, enabledByManifest |-> Range(allFiles)]

\* An applyPackageFilter that applies the user patterns to all files.
ApplyPackageFilterReplacing(manifest, userPatterns, map) ==
    LET m == CollectManifestFiles(manifest)
    IN AddResources(map, m.allFiles, ApplyPatterns(m.allFiles, userPatterns))

\* applyPackageFilter: without user patterns the manifest decides; else the
\* user patterns are applied to the files the manifest enables, and the
\* user's force-includes are matched against all files.
ApplyPackageFilter(manifest, userPatterns, map) ==
    LET m == CollectManifestFiles(manifest)
        enabledByUser ==
          ApplyPatterns(SelectSeq(m.allFiles, LAMBDA f : f \in m.enabledByManifest),
                        userPatterns)
        forceIncludePatterns == Sliced(userPatterns, "+")
        forceEnabled ==
          IF Len(forceIncludePatterns) > 0
          THEN { f \in Range(m.allFiles) : MatchesAnyPattern(f, forceIncludePatterns) }
          ELSE {}
    IN IF Len(userPatterns) = 0
       THEN AddResources(map, m.allFiles, m.enabledByManifest)
       ELSE AddResources(map, m.allFiles, enabledByUser \cup forceEnabled)

\* The pattern lists of a package manifest (pi.extensions after the directory).
ManifestPatternLists == PatternListsUpTo(1)

\* collectPackageResources comes to a resource type the user's package entry
\* has patterns for; the package has no manifest entries for the type, or the
\* directory "ext" and a list of patterns.
CallApplyPackageFilter(manifest, userPatterns) ==
    /\ pmCall = NoCall
    /\ pmCall' = [NoCall EXCEPT !.op = "applyPackageFilter",
                                !.manifest = manifest,
                                !.entries = userPatterns]
    /\ target' = ApplyPackageFilter(manifest, userPatterns, target)
    /\ UNCHANGED <<packageSources, progressEvents, operation, thrown, commandsRun>>
    /\ UNCHANGED planeVars
    /\ UNCHANGED settingsVars
    /\ UNCHANGED registryVars

\* looksLikeGitUrl: after an optional http(s)://, the source starts with a
\* known host and a slash.
LooksLikeGitUrl(source) ==
    /\ source.scheme \in {"", "https://"}
    /\ Len(source.name) > 1
    /\ source.name[1] \in GIT_HOSTS

\* parseSource: npm, git (with the prefix, or a URL of a known host) or a
\* local path; pinned if a version or ref follows the "@".
ParseSource(source) ==
    IF source.scheme = "npm:"
    THEN [type |-> "npm", name |-> source.name, pinned |-> source.ref # ""]
    ELSE IF source.scheme = "git:" \/ LooksLikeGitUrl(source)
    THEN [type |-> "git", name |-> source.name, pinned |-> source.ref # ""]
    ELSE [type |-> "local", name |-> source.name, pinned |-> FALSE]

\* resolvePath: path.resolve(cwd, path).
ResolvePath(path) == BaseDir \o SelectSeq(path, LAMBDA seg : seg # ".")

\* getPackageIdentity: the type and the name, repository or absolute path.
GetPackageIdentity(source) ==
    LET parsed == ParseSource(source)
    IN IF parsed.type = "local"
       THEN [type |-> "local", name |-> ResolvePath(parsed.name)]
       ELSE [type |-> parsed.type, name |-> parsed.name]

\* seen.get(identity): the position of the key in the map, 0 if absent.
SeenAt(seen, identity) ==
    IF \E i \in 1..Len(seen) : seen[i].identity = identity
    THEN CHOOSE i \in 1..Len(seen) : seen[i].identity = identity
    ELSE 0

\* A dedupe in which the entry seen first always stays.
RECURSIVE DedupeLoopFirstStays(_, _)
DedupeLoopFirstStays(packages, seen) ==
    IF packages = <<>> THEN seen
    ELSE LET entry == Head(packages)
             identity == GetPackageIdentity(entry.pkg)
         IN DedupeLoopFirstStays(Tail(packages),
              IF SeenAt(seen, identity) = 0
              THEN Append(seen, [identity |-> identity, entry |-> entry])
              ELSE seen)

\* The loop of dedupePackages over the entries, with the Map seen.
RECURSIVE DedupeLoop(_, _)
DedupeLoop(packages, seen) ==
    IF packages = <<>> THEN seen
    ELSE LET entry == Head(packages)
             identity == GetPackageIdentity(entry.pkg)
             at == SeenAt(seen, identity)
         IN DedupeLoop(Tail(packages),
              IF at = 0
              THEN Append(seen, [identity |-> identity, entry |-> entry])
              ELSE IF entry.scope = "project" /\ seen[at].entry.scope = "user"
              THEN [seen EXCEPT ![at].entry = entry]
              ELSE seen)

DedupePackagesFirstStays(packages) ==
    LET seen == DedupeLoopFirstStays(packages, <<>>)
    IN [i \in 1..Len(seen) |-> seen[i].entry]

\* dedupePackages: Array.from(seen.values()).
DedupePackages(packages) ==
    LET seen == DedupeLoop(packages, <<>>)
    IN [i \in 1..Len(seen) |-> seen[i].entry]

\* allPackages of resolve(): the global packages with scope "user", then the
\* project packages with scope "project".
AllPackages(global, project) ==
    [i \in 1..Len(global) |-> [pkg |-> global[i], scope |-> "user"]]
    \o [i \in 1..Len(project) |-> [pkg |-> project[i], scope |-> "project"]]

\* resolve() up to the entries it hands to resolvePackageSources.
CallResolve(global, project) ==
    /\ pmCall = NoCall
    /\ pmCall' = [NoCall EXCEPT !.op = "resolve", !.global = global, !.project = project]
    /\ packageSources' = DedupePackages(AllPackages(global, project))
    /\ UNCHANGED <<target, progressEvents, operation, thrown, commandsRun>>
    /\ UNCHANGED planeVars
    /\ UNCHANGED settingsVars
    /\ UNCHANGED registryVars

\* A withProgress that reports complete whatever happened.
TerminalEventAlwaysComplete(outcome) == "complete"

\* withProgress after the await: complete if the operation returned, error
\* (and the rethrow) if it threw.
TerminalEvent(outcome) == IF outcome = "ok" THEN "complete" ELSE "error"

ProgressEvent(type, action, source) == [type |-> type, action |-> action, source |-> source]

\* updateSourceForScope goes on to withProgress: an npm or git source that is
\* not pinned. For a pinned or a local source it returns.
Updates(source) ==
    /\ ParseSource(source).type \in {"npm", "git"}
    /\ ~ParseSource(source).pinned

\* The calls of updateSourceForScope that return at once are made.
RECURSIVE SkipReturning(_)
SkipReturning(calls) ==
    IF calls = <<>> THEN <<>>
    ELSE IF Updates(Head(calls).source) THEN calls
    ELSE SkipReturning(Tail(calls))

\* update() makes its calls of updateSourceForScope up to the first that
\* awaits: withProgress emits start and the npm or git operation begins. With
\* no such call left, update() returns.
Proceed(calls) ==
    LET rest == SkipReturning(calls)
    IN IF rest = <<>>
       THEN /\ operation' = NoOperation
            /\ UNCHANGED <<progressEvents, commandsRun>>
       ELSE /\ operation' = [st |-> "awaiting", action |-> "update",
                             source |-> Head(rest).source, scope |-> Head(rest).scope,
                             calls |-> Tail(rest)]
            /\ progressEvents' =
                 Append(progressEvents, ProgressEvent("start", "update", Head(rest).source))
            /\ commandsRun' = Append(commandsRun, [action |-> "update",
                                       source |-> Head(rest).source, scope |-> Head(rest).scope])

\* install(source, options) and remove(source, options) up to the await:
\* withProgress emits start, then the npm or git operation begins; for a
\* local source the operation throws at once, error is emitted and the
\* error is rethrown.
CallInstallOrRemove(action, source, scope) ==
    /\ pmCall = NoCall
    /\ pmCall' = [NoCall EXCEPT !.op = action, !.source = source, !.scope = scope]
    /\ IF ParseSource(source).type \in {"npm", "git"}
       THEN /\ progressEvents' = Append(progressEvents, ProgressEvent("start", action, source))
            /\ operation' = [st |-> "awaiting", action |-> action, source |-> source,
                             scope |-> scope, calls |-> <<>>]
            /\ commandsRun' = Append(commandsRun,
                                 [action |-> action, source |-> source, scope |-> scope])
            /\ UNCHANGED thrown
       ELSE /\ progressEvents' = progressEvents \o
                 << ProgressEvent("start", action, source),
                    ProgressEvent(TerminalEvent("unsupported"), action, source) >>
            /\ thrown' = "Unsupported source"
            /\ UNCHANGED <<operation, commandsRun>>
    /\ UNCHANGED <<target, packageSources>>
    /\ UNCHANGED planeVars
    /\ UNCHANGED settingsVars
    /\ UNCHANGED registryVars

\* update(source): the source in the user scope, then in the project scope.
CallUpdateSource(source) ==
    /\ pmCall = NoCall
    /\ pmCall' = [NoCall EXCEPT !.op = "update", !.source = source]
    /\ Proceed(<< [source |-> source, scope |-> "user"],
                  [source |-> source, scope |-> "project"] >>)
    /\ UNCHANGED <<target, packageSources, thrown>>
    /\ UNCHANGED planeVars
    /\ UNCHANGED settingsVars
    /\ UNCHANGED registryVars

\* update() without a source: every entry of settings.extensions of the
\* global settings, then of the project settings.
CallUpdate(global, project, globalExtensions, projectExtensions) ==
    /\ pmCall = NoCall
    /\ pmCall' = [NoCall EXCEPT !.op = "update", !.global = global, !.project = project,
                                !.globalExtensions = globalExtensions,
                                !.projectExtensions = projectExtensions]
    /\ Proceed([i \in 1..Len(globalExtensions) |->
                  [source |-> globalExtensions[i], scope |-> "user"]]
               \o [i \in 1..Len(projectExtensions) |->
                  [source |-> projectExtensions[i], scope |-> "project"]])
    /\ UNCHANGED <<target, packageSources, thrown>>
    /\ UNCHANGED planeVars
    /\ UNCHANGED settingsVars
    /\ UNCHANGED registryVars

\* The npm or git operation withProgress awaits ends: complete, or error and
\* the rethrow, which ends the method; an update() that did not throw goes on.
OperationEnds(outcome) ==
    /\ operation.st = "awaiting"
    /\ IF outcome = "ok"
       THEN /\ thrown' = thrown
            /\ IF operation.action = "update"
               THEN \E rest \in {SkipReturning(operation.calls)} :
                      IF rest = <<>>
                      THEN /\ operation' = NoOperation
                           /\ progressEvents' = Append(progressEvents,
                                  ProgressEvent(TerminalEvent(outcome), operation.action,
                                                operation.source))
                           /\ UNCHANGED commandsRun
                      ELSE /\ operation' = [operation EXCEPT !.source = Head(rest).source,
                                                            !.scope = Head(rest).scope,
                                                            !.calls = Tail(rest)]
                           /\ progressEvents' = progressEvents \o
                                << ProgressEvent(TerminalEvent(outcome), operation.action,
                                                 operation.source),
                                   ProgressEvent("start", "update", Head(rest).source) >>
                           /\ commandsRun' = Append(commandsRun, [action |-> "update",
                                  source |-> Head(rest).source, scope |-> Head(rest).scope])
               ELSE /\ operation' = NoOperation
                    /\ progressEvents' = Append(progressEvents,
                           ProgressEvent(TerminalEvent(outcome), operation.action,
                                         operation.source))
                    /\ UNCHANGED commandsRun
       ELSE /\ thrown' = "operation failed"
            /\ operation' = NoOperation
            /\ progressEvents' = Append(progressEvents,
                   ProgressEvent(TerminalEvent(outcome), operation.action, operation.source))
            /\ UNCHANGED commandsRun
    /\ UNCHANGED <<pmCall, target, packageSources>>
    /\ UNCHANGED planeVars
    /\ UNCHANGED settingsVars
    /\ UNCHANGED registryVars

\* ------------------------------------------------------ settings manager
\* { ...baseValue, ...overrideValue } of two nested objects.
Spread(baseValue, overrideValue) ==
    [has |-> TRUE,
     enabled |-> IF overrideValue.enabled # Undefined THEN overrideValue.enabled
                 ELSE baseValue.enabled,
     reserveTokens |-> IF overrideValue.reserveTokens # Undefined
                       THEN overrideValue.reserveTokens
                       ELSE baseValue.reserveTokens]

\* A deepMergeSettings that lets the override's nested object replace the base's.
DeepMergeSettingsShallow(base, overrides) ==
    [shellPath |-> IF overrides.shellPath = Undefined THEN base.shellPath
                   ELSE overrides.shellPath,
     packages |-> IF overrides.packages = Undefined THEN base.packages
                  ELSE overrides.packages,
     compaction |-> IF ~overrides.compaction.has THEN base.compaction
                    ELSE overrides.compaction]

\* deepMergeSettings: a key the override leaves undefined keeps the base's
\* value; two nested objects are spread into one; otherwise the override wins.
DeepMergeSettings(base, overrides) ==
    [shellPath |-> IF overrides.shellPath = Undefined THEN base.shellPath
                   ELSE overrides.shellPath,
     packages |-> IF overrides.packages = Undefined THEN base.packages
                  ELSE overrides.packages,
     compaction |-> IF ~overrides.compaction.has THEN base.compaction
                    ELSE IF base.compaction.has
                    THEN Spread(base.compaction, overrides.compaction)
                    ELSE overrides.compaction]

\* loadProjectSettings(): the stored object of an in-memory manager, the
\* project file otherwise.
LoadProjectSettings ==
    IF manager = "inMemory" THEN inMemoryProjectSettings ELSE projectFile

\* SettingsManager.create(cwd, agentDir) and SettingsManager.inMemory(settings):
\* the constructor merges the project settings over the global ones.
Create(persist, initialSettings, projectSettings) ==
    /\ manager = "none"
    /\ manager' = IF persist THEN "persist" ELSE "inMemory"
    /\ globalFile' = IF persist THEN initialSettings ELSE EmptySettings
    /\ projectFile' = IF persist THEN projectSettings ELSE EmptySettings
    /\ globalSettings' = initialSettings
    /\ inMemoryProjectSettings' = EmptySettings
    /\ settings' = DeepMergeSettings(initialSettings,
                                     IF persist THEN projectSettings ELSE EmptySettings)
    /\ lastCall' = [op |-> "create", wrote |-> TRUE]
    /\ UNCHANGED <<overridden, settingsCalls>>
    /\ UNCHANGED planeVars
    /\ UNCHANGED pkgVars
    /\ UNCHANGED registryVars

\* A save that leaves the effective settings as they are.
SaveNoRemerge(changed, outcome) ==
    /\ IF manager = "persist" /\ outcome # "mkdirFailed"
       THEN /\ globalSettings' = DeepMergeSettings(globalFile, changed)
            /\ globalFile' = IF outcome = "saved"
                             THEN DeepMergeSettings(globalFile, changed)
                             ELSE globalFile
       ELSE /\ globalSettings' = changed
            /\ UNCHANGED globalFile
    /\ UNCHANGED settings

\* save(), called with the setter's change made to globalSettings: a
\* persisting manager re-reads the global file, merges globalSettings over it
\* and writes the result (mkdirSync or writeFileSync may throw, which is
\* caught); then the project settings are merged over the global ones.
Save(changed, outcome) ==
    /\ IF manager = "persist" /\ outcome # "mkdirFailed"
       THEN /\ globalSettings' = DeepMergeSettings(globalFile, changed)
            /\ globalFile' = IF outcome = "saved"
                             THEN DeepMergeSettings(globalFile, changed)
                             ELSE globalFile
       ELSE /\ globalSettings' = changed
            /\ UNCHANGED globalFile
    /\ settings' = DeepMergeSettings(globalSettings', LoadProjectSettings)

SaveOutcomes == {"saved", "mkdirFailed", "writeFailed"}

\* A call on the manager, counted.
SettingsCall(op, wrote) ==
    /\ manager # "none"
    /\ settingsCalls < MaxSettingsCalls
    /\ settingsCalls' = settingsCalls + 1
    /\ lastCall' = [op |-> op, wrote |-> wrote]
    /\ UNCHANGED manager

\* setShellPath(path), path a string or undefined.
SetShellPath(path, outcome) ==
    /\ SettingsCall("setShellPath", outcome = "saved")
    /\ Save([globalSettings EXCEPT !.shellPath = path], outcome)
    /\ UNCHANGED <<inMemoryProjectSettings, projectFile, overridden>>
    /\ UNCHANGED planeVars
    /\ UNCHANGED pkgVars
    /\ UNCHANGED registryVars

\* setPackages(packages).
SetPackages(packages, outcome) ==
    /\ SettingsCall("setPackages", outcome = "saved")
    /\ Save([globalSettings EXCEPT !.packages = packages], outcome)
    /\ UNCHANGED <<inMemoryProjectSettings, projectFile, overridden>>
    /\ UNCHANGED planeVars
    /\ UNCHANGED pkgVars
    /\ UNCHANGED registryVars

\* setCompactionEnabled(enabled): the nested object is created if missing.
SetCompactionEnabled(enabled, outcome) ==
    /\ SettingsCall("setCompactionEnabled", outcome = "saved")
    /\ Save([globalSettings EXCEPT !.compaction.has = TRUE,
                                   !.compaction.enabled = enabled], outcome)
    /\ UNCHANGED <<inMemoryProjectSettings, projectFile, overridden>>
    /\ UNCHANGED planeVars
    /\ UNCHANGED pkgVars
    /\ UNCHANGED registryVars

\* setProjectPackages(packages): the project settings are loaded, changed,
\* stored (in memory, or in the project file, whose write may throw and is
\* caught) and merged over the global settings.
SetProjectPackages(packages, wrote) ==
    /\ SettingsCall("setProjectPackages", wrote \/ manager = "inMemory")
    /\ \E projectSettings \in {[LoadProjectSettings EXCEPT !.packages = packages]} :
         /\ IF manager = "inMemory"
            THEN /\ inMemoryProjectSettings' = projectSettings
                 /\ UNCHANGED projectFile
            ELSE /\ projectFile' = IF wrote THEN projectSettings ELSE projectFile
                 /\ UNCHANGED inMemoryProjectSettings
         /\ settings' = DeepMergeSettings(globalSettings, projectSettings)
    /\ UNCHANGED <<globalSettings, globalFile, overridden>>
    /\ UNCHANGED planeVars
    /\ UNCHANGED pkgVars
    /\ UNCHANGED registryVars

\* applyOverrides(overrides).
ApplyOverrides(overrides) ==
    /\ SettingsCall("applyOverrides", TRUE)
    /\ settings' = DeepMergeSettings(settings, overrides)
    /\ overridden' = DeepMergeSettings(overridden, overrides)
    /\ UNCHANGED <<globalSettings, inMemoryProjectSettings, globalFile, projectFile>>
    /\ UNCHANGED planeVars
    /\ UNCHANGED pkgVars
    /\ UNCHANGED registryVars

\* Somebody else rewrites the global settings file while the manager runs.
ExternalEdit(contents) ==
    /\ manager = "persist"
    /\ settingsCalls < MaxSettingsCalls
    /\ globalFile # contents
    /\ globalFile' = contents
    /\ UNCHANGED <<manager, globalSettings, inMemoryProjectSettings, settings, projectFile,
                   lastCall, overridden, settingsCalls>>
    /\ UNCHANGED planeVars
    /\ UNCHANGED pkgVars
    /\ UNCHANGED registryVars

\* -------------------------------------------------------- model registry
\* The state applyProviderConfig works on.
RegistryState ==
    [models |-> models, customProviderApiKeys |-> customProviderApiKeys,
     oauthProviders |-> oauthProviders, apiProviders |-> apiProviders, thrown |-> "none"]

\* this.models.filter((m) => m.provider !== providerName)
OtherProviders(ms, providerName) == SelectSeq(ms, LAMBDA m : m.provider # providerName)

\* The model pushed for a model definition.
ParsedModel(providerName, config, modelDef) ==
    [provider |-> providerName, id |-> modelDef.id,
     api |-> IF modelDef.api # Undefined THEN modelDef.api ELSE config.api,
     baseUrl |-> config.baseUrl]

\* The loop over config.models: each model is pushed, up to the first one
\* that has no api, where the loop throws.
RECURSIVE PushModels(_, _, _, _)
PushModels(st, providerName, config, defs) ==
    IF defs = <<>> THEN st
    ELSE IF Head(defs).api = Undefined /\ config.api = Undefined
    THEN [st EXCEPT !.thrown = "no api"]
    ELSE PushModels([st EXCEPT !.models =
                        Append(st.models, ParsedModel(providerName, config, Head(defs)))],
                    providerName, config, Tail(defs))

\* A replacement that leaves the provider's earlier models in the list.
ReplaceModelsKeepingOld(st, providerName, config) ==
    IF config.baseUrl = Undefined THEN [st EXCEPT !.thrown = "no baseUrl"]
    ELSE IF config.apiKey = Undefined /\ ~config.oauth
    THEN [st EXCEPT !.thrown = "no apiKey or oauth"]
    ELSE PushModels(st, providerName, config, config.models)

\* The branch of applyProviderConfig for a config with models: the
\* provider's models are removed, the config is validated, the models pushed.
ReplaceModels(st, providerName, config) ==
    LET removed == [st EXCEPT !.models = OtherProviders(st.models, providerName)]
    IN IF config.baseUrl = Undefined THEN [removed EXCEPT !.thrown = "no baseUrl"]
       ELSE IF config.apiKey = Undefined /\ ~config.oauth
       THEN [removed EXCEPT !.thrown = "no apiKey or oauth"]
       ELSE PushModels(removed, providerName, config, config.models)

\* The override-only branch: the provider's models get the baseUrl.
OverrideBaseUrl(st, providerName, config) ==
    [st EXCEPT !.models =
        [i \in 1..Len(st.models) |->
            IF st.models[i].provider # providerName THEN st.models[i]
            ELSE [st.models[i] EXCEPT !.baseUrl = config.baseUrl]]]

\* applyProviderConfig(providerName, config).
ApplyProviderConfig(st, providerName, config) ==
    LET withOAuth == IF config.oauth
                     THEN [st EXCEPT !.oauthProviders = @ \cup {providerName}]
                     ELSE st
    IN IF config.streamSimple /\ config.api = Undefined
       THEN [withOAuth EXCEPT !.thrown = "api is required"]
       ELSE LET withApi == IF config.streamSimple
                           THEN [withOAuth EXCEPT !.apiProviders = @ \cup {config.api}]
                           ELSE withOAuth
                withKey == IF config.apiKey # Undefined
                           THEN [withApi EXCEPT !.customProviderApiKeys[providerName] =
                                                   config.apiKey]
                           ELSE withApi
            IN IF config.models # <<>> THEN ReplaceModels(withKey, providerName, config)
               ELSE IF config.baseUrl # Undefined
               THEN OverrideBaseUrl(withKey, providerName, config)
               ELSE withKey

\* this.registeredProviders.set(providerName, config): a new key goes last,
\* a known key keeps its place.
MapSet(map, providerName, config) ==
    IF \E i \in 1..Len(map) : map[i].name = providerName
    THEN [i \in 1..Len(map) |->
            IF map[i].name = providerName THEN [name |-> providerName, config |-> config]
            ELSE map[i]]
    ELSE Append(map, [name |-> providerName, config |-> config])

\* The loop of refresh() over the registered providers, up to the first
\* applyProviderConfig that throws.
RECURSIVE ApplyRegistered(_, _)
ApplyRegistered(st, map) ==
    IF map = <<>> \/ st.thrown # "none" THEN st
    ELSE ApplyRegistered(ApplyProviderConfig(st, Head(map).name, Head(map).config), Tail(map))

\* A call on the registry: its outcome is stored.
RegistryCall(op, providerName, config, st) ==
    /\ registryCalls < MaxRegistryCalls
    /\ registryCalls' = registryCalls + 1
    /\ registryCall' = [op |-> op, name |-> providerName, config |-> config,
                        thrown |-> st.thrown]
    /\ before' = [models |-> models, registeredProviders |-> registeredProviders]
    /\ models' = st.models
    /\ customProviderApiKeys' = st.customProviderApiKeys
    /\ oauthProviders' = st.oauthProviders
    /\ apiProviders' = st.apiProviders

\* registerProvider(providerName, config).
RegisterProvider(providerName, config) ==
    /\ RegistryCall("registerProvider", providerName, config,
                    ApplyProviderConfig(RegistryState, providerName, config))
    /\ registeredProviders' = MapSet(registeredProviders, providerName, config)
    /\ UNCHANGED planeVars
    /\ UNCHANGED pkgVars
    /\ UNCHANGED settingsVars

\* refresh(): the keys are cleared, the models loaded again and every
\* registered config applied again.
Refresh ==
    /\ RegistryCall("refresh", "", EmptyConfig,
                    ApplyRegistered(
                        [RegistryState EXCEPT
                            !.customProviderApiKeys = [n \in ProviderNames |-> Undefined],
                            !.models = BuiltInModels],
                        registeredProviders))
    /\ UNCHANGED registeredProviders
    /\ UNCHANGED planeVars
    /\ UNCHANGED pkgVars
    /\ UNCHANGED settingsVars

\* -------------------------------------------------------- specifications
\* The SSE event plane: subscribers, session events, shutdown.
NextSse ==
    \/ \E c \in Conns : EventsRequest(c)
    \/ \E c \in Conns : OnClose(c)
    \/ SessionEvent
    \/ HandleShutdown
    \/ RejectPending
    \/ ServerClosed

SpecSse == Init /\ [][NextSse]_vars

\* The extension UI bridge: dialogs, host responses, timers, signals, shutdown.
NextUi ==
    \/ \E d \in DialogIds, m \in Methods, t \in Timeouts, sig \in SignalStates :
         IssueDialog(d, m, t, sig)
    \/ \E d \in DialogIds : OnTimeout(d)
    \/ \E d \in DialogIds : OnAbort(d)
    \/ \E q \in UiRequests : ExtensionUIResponseHandler(q.body, q.id, q.r)
    \/ \E id \in ResponseIds, r \in Responses : RpcExtensionUIResponse(id, r)
    \/ HandleShutdown
    \/ RejectPending
    \/ ServerClosed
    \/ RequestShutdown
    \/ CheckShutdownRequested
    \/ RlCloseExit

SpecUi == Init /\ [][NextUi]_vars

\* The heartbeat of HTTP mode, with subscribers and shutdown around it.
NextHeartbeat ==
    \/ \E c \in Conns : EventsRequest(c)
    \/ \E c \in Conns : OnClose(c)
    \/ TimePasses
    \/ Heartbeat
    \/ HandleShutdown
    \/ RejectPending
    \/ ServerClosed

SpecHeartbeat == Init /\ [][NextHeartbeat]_vars

\* The UI bridge with the void methods of the UI context.
NextUiCalls ==
    \/ \E m \in FireAndForgetMethods, content \in WidgetContents \cup {"none"} :
         FireAndForget(m, content)
    \/ \E d \in DialogIds, m \in Methods : IssueDialog(d, m, 0, "none")
    \/ \E id \in ResponseIds :
         ExtensionUIResponseHandler("ok", id, [cancelled |-> TRUE, field |-> "none", v |-> "undefined"])
    \/ \E id \in ResponseIds :
         RpcExtensionUIResponse(id, [cancelled |-> TRUE, field |-> "none", v |-> "undefined"])
    \/ HandleShutdown
    \/ RejectPending

SpecUiCalls == Init /\ [][NextUiCalls]_vars

\* The command dispatcher behind POST /rpc and the stdin lines.
NextRpc ==
    \/ \E k \in RequestIds, q \in RpcRequests : RpcRequest(k, q)
    \/ \E k \in RequestIds, l \in StdinLines : StdinLine(k, l)
    \/ \E k \in RequestIds : CommandSettles(k)
    \/ \E k \in RequestIds : RpcTimeoutElapses(k)
    \/ \E k \in RequestIds, o \in TurnOutcomes : TurnEnds(k, o)
    \/ ExtensionSetThinkingLevel

SpecRpc == Init /\ [][NextRpc]_vars

\* The commands sent while the process shuts down: one that returns at once
\* and one that awaits.
ShutdownCommands ==
    { c \in Commands : c.type \in {"get_state", "fork"} /\ c.arg # "missing" /\ c.id # NoId }

\* The response of an SSE subscriber that was ended by the server closes.
EndedConnectionCloses == \E c \in Conns : conn[c] = "ended" /\ OnClose(c)

\* The timer of withTimeout fires for a command POST /rpc awaits.
HttpTimeoutFires == \E k \in RequestIds : mode = "http" /\ RpcTimeoutElapses(k)

\* Shutdown of both modes, with subscribers and commands around it.
NextShutdown ==
    \/ \E c \in Conns : EventsRequest(c)
    \/ \E c \in Conns : OnClose(c)
    \/ HandleShutdown
    \/ HandleShutdownAgain
    \/ ShutdownRequest
    \/ ShutdownImmediate
    \/ RejectPending
    \/ ServerClosed
    \/ ServerError
    \/ \E k \in RequestIds, q \in RpcRequests :
         q.cmd \in ShutdownCommands /\ q.chunks = <<1>> /\ RpcRequest(k, q)
    \/ \E k \in RequestIds, l \in StdinLines :
         l.cmd \in ShutdownCommands /\ StdinLine(k, l)
    \/ \E k \in RequestIds : CommandSettles(k)
    \/ \E k \in RequestIds : RpcTimeoutElapses(k)
    \/ RequestShutdown
    \/ RlCloseExit

\* What the runtime guarantees to happen: a callback that is due runs, a
\* response the server has ended closes, a timer that is set fires. Nothing
\* makes a client close a stream the server has not ended.
SpecShutdown ==
    /\ Init
    /\ [][NextShutdown]_vars
    /\ WF_vars(ShutdownImmediate)
    /\ WF_vars(RejectPending)
    /\ WF_vars(ServerClosed)
    /\ WF_vars(RlCloseExit)
    /\ WF_vars(EndedConnectionCloses)
    /\ WF_vars(HttpTimeoutFires)

\* POST /shutdown and the signals, with subscribers around them.
NextShutdownRoute ==
    \/ \E c \in Conns : EventsRequest(c)
    \/ \E c \in Conns : OnClose(c)
    \/ ShutdownRequest
    \/ ShutdownImmediate
    \/ HandleShutdown
    \/ HandleShutdownAgain
    \/ RejectPending
    \/ ServerClosed
    \/ ServerError

\* A queued setImmediate callback runs; the awaits of handleShutdown return.
SpecShutdownRoute ==
    /\ Init
    /\ [][NextShutdownRoute]_vars
    /\ WF_vars(ShutdownImmediate)
    /\ WF_vars(RejectPending)
    /\ WF_vars(ServerClosed)
    /\ WF_vars(EndedConnectionCloses)

\* The pattern filters of the package manager.
NextFilters ==
    \/ /\ pmCall = NoCall
       /\ \E patterns \in PatternLists : CallResolveLocalEntries(patterns)
    \/ /\ pmCall = NoCall
       /\ \E userPatterns \in PatternLists :
            \E manifest \in {<<>>} \cup { <<DirEntry>> \o mp : mp \in ManifestPatternLists } :
              CallApplyPackageFilter(manifest, userPatterns)

SpecFilters == Init /\ [][NextFilters]_vars

\* resolve() over the packages of the global and the project settings.
NextResolve ==
    /\ pmCall = NoCall
    /\ \E global \in PackageLists, project \in PackageLists : CallResolve(global, project)

SpecResolve == Init /\ [][NextResolve]_vars

\* install, remove and update with their progress events.
NextProgress ==
    \/ /\ pmCall = NoCall
       /\ \E action \in {"install", "remove"}, source \in OperationSources,
             scope \in {"user", "project"} : CallInstallOrRemove(action, source, scope)
    \/ /\ pmCall = NoCall
       /\ \E source \in OperationSources : CallUpdateSource(source)
    \/ /\ pmCall = NoCall
       /\ \E global \in OperationListsUpTo(MaxPackages),
             project \in OperationListsUpTo(MaxPackages),
             globalExtensions \in ExtensionEntryLists,
             projectExtensions \in ExtensionEntryLists :
            CallUpdate(global, project, globalExtensions, projectExtensions)
    \/ \E outcome \in {"ok", "failed"} : OperationEnds(outcome)

SpecProgress == Init /\ [][NextProgress]_vars

\* A settings manager is created and its setters are called.
NextSettings ==
    \/ /\ manager = "none"
       /\ \E persist \in BOOLEAN, initialSettings \in SettingsSamples,
             projectSettings \in SettingsSamples :
            Create(persist, initialSettings, projectSettings)
    \/ \E path \in {Undefined, "sh", "zsh"}, outcome \in SaveOutcomes :
         SetShellPath(path, outcome)
    \/ \E outcome \in SaveOutcomes : SetPackages("npm:bar", outcome)
    \/ \E enabled \in {"true", "false"}, outcome \in SaveOutcomes :
         SetCompactionEnabled(enabled, outcome)
    \/ \E wrote \in BOOLEAN : SetProjectPackages("git:baz", wrote)
    \/ \E overrides \in SettingsSamples \ {EmptySettings} : ApplyOverrides(overrides)
    \/ \E contents \in SettingsSamples : ExternalEdit(contents)

SpecSettings == Init /\ [][NextSettings]_vars

\* Extensions register providers and the registry is refreshed.
NextRegistry ==
    \/ \E providerName \in ProviderNames, config \in ConfigSamples :
         RegisterProvider(providerName, config)
    \/ Refresh

SpecRegistry == Init /\ [][NextRegistry]_vars

Next ==
    \/ NextShutdown
    \/ NextRpc
    \/ NextSse
    \/ NextUi
    \/ NextUiCalls
    \/ NextShutdownRoute
    \/ NextHeartbeat
    \/ NextFilters
    \/ NextResolve
    \/ NextProgress
    \/ NextSettings
    \/ NextRegistry

Spec == Init /\ [][Next]_vars

\* ============================================================== claims
\* The sequence numbers of the events written in full to response c.
Delivered(c) ==
    LET data == SelectSeq(received[c], LAMBDA ch : ch.part = "data")
    IN [i \in 1..Len(data) |-> data[i].seq]

Members == Range(sseConnections)

StrictlyIncreasing(s) == \A i, j \in 1..Len(s) : i < j => s[i] < s[j]

\* C1: every event broadcast while a response is in the set, and whose write
\* to that response did not throw, has been written to it in full, whatever
\* happened to the writes to the other responses of the set.
C1_BroadcastReachesOthers ==
    \A c \in Members :
      \A n \in (attachedAt[c] + 1)..Len(emitted) :
        n \notin writeFailed[c] => \E i \in 1..Len(Delivered(c)) : Delivered(c)[i] = n

\* Witness of C1: the write of an event to the first response of the set
\* threw, the second response got that event and the one after it.
C1_Witness ==
    /\ Len(sseConnections) = 2
    /\ Len(emitted) = 2
    /\ 1 \in writeFailed[sseConnections[1]]
    /\ attachedAt[sseConnections[2]] = 0
    /\ Delivered(sseConnections[2]) = <<1, 2>>

\* C2 as stated: each subscriber sees the events in emission order, and two
\* subscribers attached over the same interval see the same sequence.
C2_SameSequence ==
    /\ \A c \in Conns : StrictlyIncreasing(Delivered(c))
    /\ \A c1, c2 \in Members :
         attachedAt[c1] = attachedAt[c2] => Delivered(c1) = Delivered(c2)

\* C2 amended: each subscriber sees the events in emission order, and two
\* subscribers attached over the same interval, none of whose writes threw,
\* see the same sequence.
C2_SameSequenceIfNoWriteFailed ==
    /\ \A c \in Conns : StrictlyIncreasing(Delivered(c))
    /\ \A c1, c2 \in Members :
         (attachedAt[c1] = attachedAt[c2] /\ writeFailed[c1] = {} /\ writeFailed[c2] = {})
           => Delivered(c1) = Delivered(c2)

\* Witness of C2: two subscribers attached together have both seen two events.
C2_Witness ==
    /\ Len(sseConnections) = 2
    /\ attachedAt[sseConnections[1]] = attachedAt[sseConnections[2]]
    /\ Delivered(sseConnections[1]) = <<1, 2>>
    /\ Delivered(sseConnections[2]) = <<1, 2>>

\* C3: everything written to a response was emitted after the response
\* joined the set, and no step writes to a response that is not in the set.
C3_NoReplay ==
    /\ [](\A c \in Conns :
            \A i \in 1..Len(received[c]) : received[c][i].seq > attachedAt[c])
    /\ [][\A c \in Conns : c \notin Members => received'[c] = received[c]]_vars

\* Witness of C3: a subscriber that joined after the first event holds the
\* second event and nothing of the first.
C3_Witness ==
    \E c \in Members :
      /\ attachedAt[c] = 1
      /\ Delivered(c) = <<2>>

C5_RemovedOnNextFailedWrite ==
    \A c \in Conns : Cardinality(writeFailed[c]) >= 2 => c \notin Members

\* The value a response carries for a dialog of method m.
CarriedValue(m, r) ==
    CASE r.cancelled /\ m = "confirm" -> "false"
      [] r.cancelled /\ m # "confirm" -> "undefined"
      [] ~r.cancelled /\ m = "confirm" /\ r.field = "confirmed" -> r.v
      [] ~r.cancelled /\ m # "confirm" /\ r.field = "value" -> r.v
      [] OTHER -> IF m = "confirm" THEN "false" ELSE "undefined"

\* C6: right after a response whose id matched a pending dialog was handled,
\* the dialog's promise is resolved with the value the response carries, its
\* entry is gone from the pending map, and on HTTP the reply is 200.
C6_ResponseResolves ==
    lastReply.outcome = "resolved" =>
      /\ promise[lastReply.id] =
           [st |-> "resolved", v |-> CarriedValue(method[lastReply.id], lastReply.response)]
      /\ lastReply.id \notin pendingExtensionRequests
      /\ mode = "http" => lastReply.status = 200

\* Witness of C6: a response carrying the value "a" has resolved a dialog.
C6_Witness ==
    /\ lastReply.outcome = "resolved"
    /\ lastReply.response = [cancelled |-> FALSE, field |-> "value", v |-> "a"]
    /\ promise[lastReply.id] = [st |-> "resolved", v |-> "a"]

\* C7: a dialog settled by its timeout is a select, confirm or input, is
\* resolved with undefined (false for confirm), and has no pending entry.
C7_TimeoutResolvesDefault ==
    \A d \in DialogIds :
      settledBy[d] = "timeout" =>
        /\ method[d] \in DialogMethods
        /\ promise[d] = [st |-> "resolved",
                         v |-> IF method[d] = "confirm" THEN "false" ELSE "undefined"]
        /\ d \notin pendingExtensionRequests
        /\ ~timerArmed[d]

\* Witness of C7: a confirm has timed out.
C7_Witness ==
    \E d \in DialogIds : settledBy[d] = "timeout" /\ method[d] = "confirm"

\* C8: a dialog settled by its abort signal, fired while it was pending or
\* already aborted when it was called, is resolved with undefined (false for
\* confirm) and has no pending entry, just as after a timeout.
C8_AbortResolvesDefault ==
    \A d \in DialogIds :
      settledBy[d] \in {"abort", "preaborted"} =>
        /\ signal[d] = "aborted"
        /\ promise[d] = [st |-> "resolved",
                         v |-> IF method[d] = "confirm" THEN "false" ELSE "undefined"]
        /\ d \notin pendingExtensionRequests
        /\ ~timerArmed[d]

\* Witness of C8: the signal of a pending confirm has fired.
C8_Witness ==
    \E d \in DialogIds : settledBy[d] = "abort" /\ method[d] = "confirm"

\* C9 as stated: what shutdown settles it rejects with the shutdown error,
\* and in stdin RPC mode nothing is pending once the process has shut down.
C9_ShutdownRejectsPending ==
    /\ \A d \in DialogIds :
         settledBy[d] = "shutdown" => promise[d] = [st |-> "rejected", v |-> ShutdownError]
    /\ (mode = "rpc" /\ pc = "exited") =>
         /\ pendingExtensionRequests = {}
         /\ \A d \in DialogIds : promise[d].st # "pending"

\* C10: handling a well-formed response whose id is not in the pending map
\* changes no dialog state and emits nothing; on HTTP the reply is 200.
C10_UnknownIdChangesNothing ==
    [][lastReply'.outcome = "unknown" =>
         /\ UNCHANGED dialogVars
         /\ emitted' = emitted
         /\ mode = "http" => lastReply'.status = 200
         /\ mode = "rpc" => lastReply'.status = 0]_vars

\* Witness of C10: a response arrived for a dialog that had timed out.
C10_Witness ==
    /\ lastReply.outcome = "unknown"
    /\ lastReply.id \in DialogIds
    /\ settledBy[lastReply.id] = "timeout"

\* The command of request or line k went to the dispatcher and something was
\* sent back for it.
Dispatched(k) ==
    /\ requests[k].st # "none"
    /\ requests[k].body = "command"
    /\ responses[k].type = "response"

\* C11 as stated: the response to every command that went to the dispatcher,
\* one of unknown type included, carries the command's type and the id sent
\* with the command.
C11_ResponseEchoesCommand ==
    \A k \in RequestIds :
      Dispatched(k) =>
        /\ responses[k].command = requests[k].cmd.type
        /\ responses[k].id = requests[k].cmd.id

\* C12: a command of a type the dispatcher has no case for is answered with
\* success false, with status 400 on POST /rpc, and no session method was
\* invoked for it.
C12_UnknownTypeFails ==
    \A k \in RequestIds :
      (Dispatched(k) /\ requests[k].cmd.type = UnknownType) =>
        /\ ~responses[k].success
        /\ mode = "http" => responses[k].status = 400
        /\ mode = "rpc" => responses[k].status = 0
        /\ sessionOps[k] = {}
        /\ turn[k] = NoTurn

\* Witness of C12: POST /rpc answered 400 to a command of unknown type.
C12_Witness ==
    \E k \in RequestIds :
      /\ requests[k].cmd.type = UnknownType
      /\ responses[k].status = 400
      /\ responses[k].command = UnknownType

C14_TimeoutFailsCommand ==
    \A k \in RequestIds :
      overdue[k] =>
        /\ responses[k].type = "response"
        /\ ~responses[k].success
        /\ responses[k].command = requests[k].cmd.type

\* The bodies createRpcHandler turns away.
Malformed == {"none", "badjson", "notype"}

\* C15: a POST /rpc whose body is missing, is not JSON or has no string type
\* is answered 400 with an error message by the handler itself, nothing of
\* the session is invoked or changed for it, and the server is left as it
\* was, ready for the next request.
C15_MalformedRejected ==
    /\ [](\A k \in RequestIds :
            (mode = "http" /\ requests[k].body \in Malformed /\ responses[k].status # 503
               /\ requests[k].st # "none") =>
              /\ requests[k].st = "done"
              /\ responses[k].status = 400
              /\ responses[k].type = "error"
              /\ responses[k].error # "none"
              /\ sessionOps[k] = {}
              /\ turn[k] = NoTurn)
    /\ [][\A k \in RequestIds :
            (mode = "http" /\ requests[k].st = "none" /\ requests'[k].st # "none"
               /\ requests'[k].body \in Malformed) =>
              /\ session' = session
              /\ pc' = pc
              /\ exitCode' = exitCode
              /\ \A j \in RequestIds \ {k} :
                   requests'[j] = requests[j] /\ responses'[j] = responses[j]]_vars

\* Witness of C15: a request without a type field was answered 400, and the
\* get_state sent after it was answered 200.
C15_Witness ==
    /\ mode = "http"
    /\ requests[1].body = "notype"
    /\ responses[1].status = 400
    /\ requests[2].cmd.type = "get_state"
    /\ responses[2].status = 200

C17_MissingObjectFails ==
    /\ [](\A k \in RequestIds :
            (requests[k].st = "done" /\ requests[k].cmd.type \in NamingTypes
               /\ requests[k].cmd.arg = "missing" /\ responses[k].type = "response") =>
              /\ ~responses[k].success
              /\ responses[k].id = requests[k].cmd.id
              /\ responses[k].command = requests[k].cmd.type)
    /\ [][\A k \in RequestIds :
            (requests[k].cmd.arg = "missing" /\ requests[k].st \in {"running", "timedout"}
               /\ requests'[k].st = "done") => session' = session]_vars

\* Request or line k is a get_state answered in this step.
GetStateReply(k) ==
    /\ requests[k].st = "none"
    /\ requests'[k].st # "none"
    /\ requests'[k].cmd.type = "get_state"
    /\ responses'[k].type = "response"

C19_ShutdownExits ==
    /\ (mode = "http" /\ pc \in {"emitting", "closing"}) ~> (pc = "exited")
    /\ [][exitCode' = 1 => ServerError]_vars
    /\ [][(mode = "http" /\ pc # "exited" /\ pc' = "exited" /\ ~ServerError) =>
            exitCode' = 0]_vars

\* C20 as stated: the extensions are given session_shutdown at most once, and
\* exactly once when the process has exited after a shutdown.
C20_SessionShutdownOnce ==
    /\ sessionShutdowns <= 1
    /\ (pc = "exited" /\ exitCode = 0) => sessionShutdowns = 1

\* C21: a POST /shutdown that reaches a server which is not closing is
\* answered 204, and the step that writes the 204 only queues the call of the
\* shutdown handler: nothing of the shutdown sequence has happened in it. The
\* queued call then runs, after the 204, and invokes the handler.
C21_ReplyBeforeShutdown ==
    /\ [](lastReply.route = "shutdown" /\ ~IsShuttingDown => lastReply.status = 204)
    /\ [][shutdownImmediates' > shutdownImmediates =>
            /\ lastReply'.route = "shutdown"
            /\ lastReply'.status = 204
            /\ shutdown204' = shutdown204 + 1
            /\ UNCHANGED <<pc, heartbeatTimer, subscribed, sseConnections, conn,
                           sessionShutdowns, triggers, pendingExtensionRequests>>]_vars
    /\ [][shutdownImmediates' < shutdownImmediates =>
            /\ shutdown204 > shutdownImmediates'
            /\ triggers' = triggers + 1
            /\ pc' # "running"]_vars
    /\ (shutdownImmediates > 0) ~> (shutdownImmediates = 0 \/ pc = "exited")

\* POST /shutdown was answered 204 and its queued call began the shutdown.
C21_Witness ==
    /\ shutdown204 = 1
    /\ shutdownImmediates = 0
    /\ triggers = 1
    /\ pc = "emitting"
    /\ sessionShutdowns = 1

\* C22: in stdin mode, once an extension has requested shutdown, the process
\* exits only after every command in progress was answered, and from the
\* moment no command is in progress no further command is handled: the next
\* thing that happens is session_shutdown and the exit.
C22_ShutdownAtNextIdle ==
    /\ [](mode = "rpc" /\ pc = "exited" => \A k \in RequestIds : requests[k].st # "running")
    /\ [][(mode = "rpc" /\ shutdownRequested /\ \A k \in RequestIds : requests[k].st # "running")
            => \A k \in RequestIds : requests[k].st = "none" => requests'[k].st = "none"]_vars

\* A stdin line that was not JSON has been read.
BadLine(k) == mode = "rpc" /\ requests[k].st # "none" /\ requests[k].body = "badjson"

\* C23: in stdin mode a line that is not JSON is answered with one error
\* response; reading it changes nothing else (the process runs on, no other
\* line or response is touched); and after it the next line is still read
\* and every command line handled gets its response.
C23_BadLineAnswered ==
    /\ [](\A k \in RequestIds : BadLine(k) =>
             /\ requests[k].st = "done"
             /\ responses[k] = SendJson(0, Error(NoId, "parse", "Failed to parse command")))
    /\ [](\A j, k \in RequestIds :
             (BadLine(j) /\ j < k /\ Fresh(k)) => ENABLED (\E l \in StdinLines : StdinLine(k, l)))
    /\ [](\A j, k \in RequestIds :
             (BadLine(j) /\ j < k /\ requests[k].st = "done") => responses[k].type = "response")
    /\ [][\A k \in RequestIds :
             (requests[k].st = "none" /\ BadLine(k)') =>
                /\ pc' = "running"
                /\ UNCHANGED <<session, sessionOps, turn, emitted, pendingExtensionRequests>>
                /\ \A j \in RequestIds \ {k} :
                     requests'[j] = requests[j] /\ responses'[j] = responses[j]]_vars

\* A line that was not JSON was answered, and the command on the next line
\* was handled and answered with success.
C23_Witness ==
    /\ BadLine(1)
    /\ requests[2].st = "done"
    /\ requests[2].body = "command"
    /\ responses[2].success

\* One of the five void methods of the UI context has just been called.
VoidCall == lastReply.route \in FireAndForgetMethods

\* C24: a call of notify, setStatus, setWidget, setTitle or setEditorText
\* emits one extension_ui_request and returns: the pending map, the promises,
\* the timers and the abort listeners are as they were.
C24_FireAndForget ==
    [][VoidCall' =>
         /\ emitted' = Append(emitted, Event("extension_ui_request", UnknownId))
         /\ UNCHANGED dialogVars]_vars

\* C24 as the code has it: the same, except that setWidget called with a
\* component factory emits nothing.
C24_FireAndForgetButFactory ==
    [][VoidCall' =>
         /\ IF lastReply'.route = "setWidget" /\ lastReply'.outcome = "factory"
            THEN emitted' = emitted
            ELSE emitted' = Append(emitted, Event("extension_ui_request", UnknownId))
         /\ UNCHANGED dialogVars]_vars

\* A void method was called and emitted its request while a dialog was
\* pending, and the dialog is still pending.
C24_Witness ==
    /\ VoidCall
    /\ lastReply.outcome # "factory"
    /\ pendingExtensionRequests = {1}
    /\ promise[1] = Pending
    /\ emitted = <<Event("extension_ui_request", 1), Event("extension_ui_request", UnknownId)>>

\* The step emits a heartbeat event.
HeartbeatSent ==
    /\ Len(emitted') = Len(emitted) + 1
    /\ emitted'[Len(emitted')].type = "heartbeat"

\* C25: a heartbeat is emitted exactly when the interval of
\* HEARTBEAT_INTERVAL_MS has elapsed since the timer was set or since
\* the last heartbeat, during that time no other heartbeat is sent, and it is
\* written to every response that is in the subscriber set at that moment (in
\* full, unless that write throws). Once shutdown has begun the timer is
\* cleared and no step emits a heartbeat.
C25_HeartbeatWhileRunning ==
    /\ [](sinceHeartbeat <= HEARTBEAT_INTERVAL_MS)
    /\ [](pc # "running" => ~heartbeatTimer)
    /\ []((mode = "http" /\ pc = "running") => heartbeatTimer)
    /\ [][HeartbeatSent =>
            /\ mode = "http"
            /\ pc = "running"
            /\ sinceHeartbeat = HEARTBEAT_INTERVAL_MS
            /\ sinceHeartbeat' = 0
            /\ \A c \in Members :
                 Len(emitted') \notin writeFailed'[c] =>
                   received'[c] = received[c] \o
                     << [seq |-> Len(emitted'), part |-> "event"],
                        [seq |-> Len(emitted'), part |-> "data"] >>]_vars
    /\ [][(sinceHeartbeat = HEARTBEAT_INTERVAL_MS /\ sinceHeartbeat' # sinceHeartbeat)
            => HeartbeatSent]_vars

\* Two subscribers are connected and both got the heartbeat of the first tick.
C25_Witness ==
    /\ Len(sseConnections) = 2
    /\ Len(emitted) >= 1
    /\ emitted[1].type = "heartbeat"
    /\ \A c \in Members : attachedAt[c] = 0 /\ Len(Delivered(c)) >= 1 /\ Delivered(c)[1] = 1

\* The paths of the target map, in order, and the enabled ones.
Reported == [i \in 1..Len(target) |-> target[i].path]
Enabled == { target[i].path : i \in { j \in 1..Len(target) : target[j].enabled } }

\* The patterns among the entries of the call.
CallPatterns == SelectSeq(pmCall.entries, LAMBDA e : IsPattern(e))

\* C26: after resolveLocalEntries every candidate file is in the target map
\* once, and it is enabled exactly if it matches a "+" pattern, or matches no
\* "!" pattern and there is no plain pattern or it matches one.
C26_EnabledByPatterns ==
    pmCall.op = "resolveLocalEntries" =>
      /\ Reported = DirListing
      /\ \A f \in Range(DirListing) :
           f \in Enabled <=>
             \/ MatchesAnyPattern(f, Sliced(CallPatterns, "+"))
             \/ /\ ~MatchesAnyPattern(f, Sliced(CallPatterns, "!"))
                /\ \/ Sliced(CallPatterns, "") = <<>>
                   \/ MatchesAnyPattern(f, Sliced(CallPatterns, ""))

\* Everything is excluded and one file is forced back: it alone is enabled,
\* the others are reported as disabled.
C26_Witness ==
    /\ pmCall.op = "resolveLocalEntries"
    /\ pmCall.entries = <<DirEntry, [prefix |-> "!", glob |-> <<"*">>],
                           [prefix |-> "+", glob |-> <<"**", "a.ts">>]>>
    /\ target = << [path |-> <<"ext", "a.ts">>, enabled |-> TRUE],
                   [path |-> <<"ext", "b.ts">>, enabled |-> FALSE],
                   [path |-> <<"ext", "old", "c.ts">>, enabled |-> FALSE] >>

SamePackage(a, b) ==
    LET Kind(x) == IF x.scheme = "npm:" THEN "npm"
                   ELSE IF x.scheme = "" /\ x.name[1] \notin GIT_HOSTS THEN "local"
                   ELSE "git"
        Plain(x) == IF Kind(x) = "local" THEN SelectSeq(x.name, LAMBDA seg : seg # ".")
                    ELSE x.name
    IN Kind(a) = Kind(b) /\ Plain(a) = Plain(b)

\* C28: resolve() processes exactly one entry for every package configured;
\* for a package configured in the project settings that entry is a
\* project-scoped one, and no entry is processed that was not configured.
C28_ProjectWins ==
    pmCall.op = "resolve" =>
      /\ \A s \in Range(pmCall.global) \cup Range(pmCall.project) :
           Cardinality({ i \in 1..Len(packageSources) :
                           SamePackage(packageSources[i].pkg, s) }) = 1
      /\ \A i \in 1..Len(packageSources) :
           /\ packageSources[i].pkg \in
                IF packageSources[i].scope = "project" THEN Range(pmCall.project)
                ELSE Range(pmCall.global)
           /\ (\E s \in Range(pmCall.project) : SamePackage(packageSources[i].pkg, s))
                => packageSources[i].scope = "project"

\* The same npm package is in the global settings and, pinned, in the
\* project settings, next to a local package: the pinned project entry and
\* the local package are processed.
C28_Witness ==
    /\ pmCall.op = "resolve"
    /\ pmCall.global = << [scheme |-> "npm:", name |-> <<"foo">>, ref |-> ""],
                          [scheme |-> "", name |-> <<"pkg">>, ref |-> ""] >>
    /\ pmCall.project = << [scheme |-> "npm:", name |-> <<"foo">>, ref |-> "1.0.0"] >>
    /\ packageSources =
         << [pkg |-> [scheme |-> "npm:", name |-> <<"foo">>, ref |-> "1.0.0"], scope |-> "project"],
            [pkg |-> [scheme |-> "", name |-> <<"pkg">>, ref |-> ""], scope |-> "user"] >>
\* The method called has returned or thrown.
MethodOver == pmCall.op \in {"install", "remove", "update"} /\ operation.st = "idle"

\* C29 as stated: every install, remove or update operation emits one start
\* event first and then exactly one terminal event, complete if it returned
\* and error if it threw, the error event before the rethrow.
C29_StartThenOneTerminal ==
    pmCall.op \in {"install", "remove", "update"}
    => /\ operation.st = "awaiting" => [i \in 1..Len(progressEvents) |-> progressEvents[i].type] = <<"start">>
       /\ operation.st = "idle" =>
            [i \in 1..Len(progressEvents) |-> progressEvents[i].type]
              = <<"start", IF thrown = "none" THEN "complete" ELSE "error">>

\* C29, amended: the progress events of install, remove and update come in
\* pairs, a start and then one terminal event of the same action and source
\* before any other event; error is the last event and is there exactly when
\* the method threw. install and remove emit exactly one pair. update emits a
\* pair for each scope it updates the source in, none for a pinned or a
\* local source, and none after a failure.
C29_StartTerminalPairs ==
    pmCall.op \in {"install", "remove", "update"}
    => /\ \A i \in 1..Len(progressEvents) :
            /\ progressEvents[i].action = pmCall.op
            /\ i % 2 = 1 => progressEvents[i].type = "start"
            /\ i % 2 = 0 =>
                 /\ progressEvents[i].type \in {"complete", "error"}
                 /\ progressEvents[i].source = progressEvents[i - 1].source
            /\ progressEvents[i].type = "error" => i = Len(progressEvents)
            /\ pmCall.op = "update" => Updates(progressEvents[i].source)
       /\ operation.st = "awaiting" <=> Len(progressEvents) % 2 = 1
       /\ thrown # "none" <=>
            /\ progressEvents # <<>>
            /\ progressEvents[Len(progressEvents)].type = "error"
       /\ Len(progressEvents) = 2 * Len(commandsRun) - (IF operation.st = "awaiting" THEN 1 ELSE 0)
            + (IF thrown = "Unsupported source" THEN 2 ELSE 0)
       /\ pmCall.op \in {"install", "remove"} =>
            /\ Len(progressEvents) \in {1, 2}
            /\ progressEvents[1].source = pmCall.source
       /\ (pmCall.op = "update" /\ pmCall.source # NoSource) =>
            /\ Len(progressEvents) <= 4
            /\ \A i \in 1..Len(progressEvents) : progressEvents[i].source = pmCall.source
            /\ ~Updates(pmCall.source) => progressEvents = <<>>
            /\ (Updates(pmCall.source) /\ operation.st = "idle" /\ thrown = "none")
                 => Len(progressEvents) = 4

\* Witness for C29: update(source) of a source that is not pinned returned
\* after both scopes completed, and so emitted two pairs.
C29_Witness ==
    /\ pmCall.op = "update"
    /\ pmCall.source # NoSource
    /\ operation.st = "idle"
    /\ thrown = "none"
    /\ Len(progressEvents) = 4
    /\ progressEvents[2].type = "complete"
    /\ progressEvents[3].type = "start"

\* The npm and git sources of a list that are not pinned, with the scope.
NotPinned(sources, scope) ==
    { [source |-> sources[i], scope |-> scope] :
        i \in { j \in 1..Len(sources) : Updates(sources[j]) } }

\* C30: update() without a source, when nothing fails, updates every npm and
\* git package of the global and the project settings that is not pinned, and
\* never a pinned one.
C30_UpdatesAllNotPinned ==
    (MethodOver /\ pmCall.op = "update" /\ pmCall.source = NoSource /\ thrown = "none")
    => { [source |-> commandsRun[i].source, scope |-> commandsRun[i].scope] :
           i \in 1..Len(commandsRun) }
         = NotPinned(pmCall.global, "user") \cup NotPinned(pmCall.project, "project")


\* C31 as stated: at every moment the effective settings are the global
\* settings with the project settings merged over them, key by key and, for a
\* nested object, subkey by subkey.
C31_ProjectOverGlobal ==
    manager # "none" => settings = DeepMergeSettings(globalSettings, LoadProjectSettings)

\* The call made last left the effective settings merged from the two
\* settings objects: it was no applyOverrides, and no project setter whose
\* write of the project file failed.
Remerged ==
    /\ lastCall.op # "applyOverrides"
    /\ lastCall.op = "setProjectPackages" => lastCall.wrote

\* C31, amended: after the constructor and after every setter the effective
\* settings are the global settings with the project settings merged over
\* them (the project value wins, nested objects merge subkey by subkey with
\* the project subkey winning), whatever the global file holds and whether or
\* not the global file could be written; applyOverrides and a project setter
\* whose file write failed leave them different until the next setter.
C31_ProjectOverGlobalAfterSetters ==
    (manager # "none" /\ Remerged) =>
      /\ settings = DeepMergeSettings(globalSettings, LoadProjectSettings)
      /\ settings.shellPath =
           IF LoadProjectSettings.shellPath # Undefined THEN LoadProjectSettings.shellPath
           ELSE globalSettings.shellPath
      /\ settings.packages =
           IF LoadProjectSettings.packages # Undefined THEN LoadProjectSettings.packages
           ELSE globalSettings.packages
      /\ settings.compaction.enabled =
           IF LoadProjectSettings.compaction.enabled # Undefined
           THEN LoadProjectSettings.compaction.enabled
           ELSE globalSettings.compaction.enabled
      /\ settings.compaction.reserveTokens =
           IF LoadProjectSettings.compaction.reserveTokens # Undefined
           THEN LoadProjectSettings.compaction.reserveTokens
           ELSE globalSettings.compaction.reserveTokens

\* Witness for C31: a global setter has saved compaction.enabled while the
\* project file sets compaction.reserveTokens only: both are in effect.
C31_Witness ==
    /\ manager = "persist"
    /\ lastCall.op = "setCompactionEnabled"
    /\ projectFile.compaction.reserveTokens = "100"
    /\ projectFile.compaction.enabled = Undefined
    /\ globalSettings.compaction.enabled = "false"
    /\ settings.compaction = [has |-> TRUE, enabled |-> "false", reserveTokens |-> "100"]
    /\ settings.packages = "npm:foo"

\* C39: a value given to applyOverrides stays in effect: whatever setter is
\* called afterwards, every key (and nested subkey) that was overridden still
\* has the overriding value in the effective settings.
C39_OverridesStay ==
    manager # "none" =>
      /\ overridden.shellPath # Undefined => settings.shellPath = overridden.shellPath
      /\ overridden.packages # Undefined => settings.packages = overridden.packages
      /\ overridden.compaction.enabled # Undefined
           => settings.compaction.enabled = overridden.compaction.enabled
      /\ overridden.compaction.reserveTokens # Undefined
           => settings.compaction.reserveTokens = overridden.compaction.reserveTokens

\* The registry's models of a provider, in order.
ModelsOf(ms, providerName) == SelectSeq(ms, LAMBDA m : m.provider = providerName)

\* registerProvider was called last and returned.
Registered == registryCall.op = "registerProvider" /\ registryCall.thrown = "none"

\* C32: after registerProvider(name, config) with a non-empty models list the
\* registry's models of that provider are exactly the models of config, none
\* of the provider's earlier models is left; with a baseUrl and no models the
\* provider has the models it had, each with the baseUrl of config; the
\* models of other providers are as they were.
C32_RegisterReplacesOrOverrides ==
    Registered =>
      LET name == registryCall.name
          config == registryCall.config
          now == ModelsOf(models, name)
          was == ModelsOf(before.models, name)
      IN /\ config.models # <<>> =>
              /\ Len(now) = Len(config.models)
              /\ \A i \in 1..Len(now) :
                    /\ now[i].id = config.models[i].id
                    /\ now[i].baseUrl = config.baseUrl
                    /\ now[i].api \in {config.models[i].api, config.api} \ {Undefined}
         /\ (config.models = <<>> /\ config.baseUrl # Undefined) =>
              /\ Len(now) = Len(was)
              /\ \A i \in 1..Len(now) :
                    now[i] = [was[i] EXCEPT !.baseUrl = config.baseUrl]
         /\ OtherProviders(models, name) = OtherProviders(before.models, name)

\* Witness for C32: a built-in provider with two models was registered with
\* one model of its own, and that model is the only one it has now.
C32_Witness ==
    /\ Registered
    /\ registryCall.name = "anthropic"
    /\ Len(ModelsOf(before.models, "anthropic")) = 2
    /\ ModelsOf(models, "anthropic") =
         << [provider |-> "anthropic", id |-> "m3", api |-> "openai-responses",
             baseUrl |-> "https://corp"] >>

\* The errors applyProviderConfig throws for an invalid configuration with models.
InvalidConfigErrors == {"no baseUrl", "no apiKey or oauth", "no api"}

\* C38: a registerProvider that throws for an invalid configuration leaves
\* the registry as it was: the models are the ones from before the call, and
\* the configuration is not among those a refresh() applies again.
C38_InvalidLeavesRegistry ==
    (registryCall.op = "registerProvider" /\ registryCall.thrown \in InvalidConfigErrors)
    => /\ models = before.models
       /\ registeredProviders = before.registeredProviders

\* C33: a dialog's id is in the pending map exactly while its promise is
\* pending; once the promise is settled, by a response, the timeout, an abort
\* or the shutdown, its timer is cleared and its abort listener removed, and
\* no later step changes the promise or what settled it.
C33_SettlesOnce ==
    /\ [](\A d \in DialogIds :
            /\ d \in pendingExtensionRequests <=> promise[d].st = "pending"
            /\ promise[d].st \in {"resolved", "rejected"} =>
                 /\ ~timerArmed[d]
                 /\ ~listening[d]
                 /\ settledBy[d] \in {"response", "timeout", "abort", "shutdown", "preaborted"}
            /\ promise[d].st = "pending" => settledBy[d] = "none")
    /\ [][\A d \in DialogIds :
            promise[d].st \in {"resolved", "rejected"} =>
              /\ promise'[d] = promise[d]
              /\ settledBy'[d] = settledBy[d]]_vars

\* Witness for C33: a dialog was settled by its timeout, and the host's
\* response for it, arriving afterwards, found no entry.
C33_Witness ==
    \E d \in DialogIds :
      /\ settledBy[d] = "timeout"
      /\ promise[d].st = "resolved"
      /\ lastReply.id = d
      /\ lastReply.outcome = "unknown"

\* C34: once the shutdown of HTTP mode has begun, no step adds a response to
\* the set of subscribers, every request that arrives is answered 503, and no
\* session method is invoked for it.
C34_NoRoutingDuringShutdown ==
    [][(mode = "http" /\ pc # "running") =>
         /\ Range(sseConnections') \subseteq Range(sseConnections)
         /\ \A k \in RequestIds :
              (requests[k].st = "none" /\ requests'[k].st # "none") =>
                /\ responses'[k].status = 503
                /\ sessionOps'[k] = {}]_vars

\* C35: in stdin RPC mode the handling of a command line starts only when no
\* earlier command is still waiting for its response, and the responses are
\* written in the order of the lines: a command is never answered while an
\* earlier one is not.
C35_OneAtATime ==
    /\ [](mode = "rpc" =>
            \A j, k \in RequestIds :
              (j < k /\ requests[k].st = "done") => requests[j].st = "done")
    /\ [][mode = "rpc" =>
            \A k \in RequestIds :
              (requests[k].st = "none" /\ requests'[k].st # "none") =>
                \A j \in RequestIds : requests[j].st # "running"]_vars

\* C37: a command that POST /rpc has answered with the timeout failure is
\* over: when its session method settles later, the session is as it was and
\* no further session method is invoked for it.
C37_TimedOutCommandStops ==
    [][\A k \in RequestIds :
         (mode = "http" /\ requests[k].st = "timedout" /\ requests'[k].st = "done") =>
           /\ session' = session
           /\ sessionOps'[k] = sessionOps[k]]_vars

\* C36: in stdin RPC mode a command line gets exactly one response line, and
\* that line carries the command's id and type: once the response of a line
\* is written, no later step writes another line for it (a success followed
\* by a failure for the same prompt), and the written line names the
\* command it answers.
C36_ExactlyOneResponse ==
    [][\A k \in RequestIds :
         (mode = "rpc" /\ requests[k].st = "done" /\ responses[k] # NoResponse) =>
           /\ responses'[k] = responses[k]
           /\ responses[k].id = requests[k].cmd.id
           /\ responses[k].command = requests[k].cmd.type]_vars

====
